---- MODULE Spec2Model ----
(***************************************************************************)
(* super-ralph: the speculative merge-queue coordinator                    *)
(* (mergeQueue/coordinator.ts) and the SuperRalph frame with its           *)
(* scheduled-task queue (components/SuperRalph.tsx, TicketScheduler.tsx,   *)
(* AgenticMergeQueue.tsx, selectors.ts).                                   *)
(*                                                                         *)
(* The two subsystems share no state in the source (the coordinator is     *)
(* exported but not wired into the workflow), so a behaviour runs one of   *)
(* them, chosen by `mode` in the initial state.                            *)
(***************************************************************************)
EXTENDS Integers, Sequences, FiniteSets, TLC

(***************************************************************************)
(* Bounds                                                                  *)
(***************************************************************************)
MaxCalls == 3
MaxReportIteration == 2
\* tickets handed to the coordinator in one behaviour: one per call, plus one per
\* ticket of the call's queue snapshot
MaxSubmitted == 3
\* failing outcomes (fetch, rebase, review verdict, CI, fast-forward, push) the
\* environment produces in one behaviour
MaxFaults == 2
\* Ralph iterations 0..MaxIteration
MaxIteration == 2
\* jobs in one scheduler output
MaxScheduleLen == 2

(***************************************************************************)
(* Program constants                                                       *)
(***************************************************************************)
\* Number.MAX_SAFE_INTEGER, the snapshot index of a ticket that is not in the
\* request's snapshot; it is only ever compared, so any value above every real
\* index stands for it.
MAX_SAFE_INTEGER == 2147483647
\* maxSpeculativeDepth of a fresh coordinator
DefaultDepth == 1

QTickets == {"T1", "T2", "T3"}

\* MergeQueueTicket.priority of the tickets of the model
PriorityOf(t) == CASE t = "T1" -> "medium" [] t = "T2" -> "critical" [] OTHER -> "medium"

priorityRank(p) ==
  CASE p = "critical" -> 0 [] p = "high" -> 1 [] p = "medium" -> 2 [] p = "low" -> 3 [] OTHER -> 99

OrderingStrategies == {"report-complete-fifo", "priority", "ticket-order"}

VARIABLES
  mode,            \* which subsystem this behaviour runs: "queue", "pipeline", ...
  config,          \* the request fields every caller of this run passes
  registry,        \* coordinatorRegistry has the run's key
  entries,         \* SpeculativeMergeQueueCoordinator.entries: ticketId -> QueueEntry
  enqueueCounter,
  processing,      \* this.processing is a promise (TRUE) or null (FALSE)
  coord,           \* orderingStrategy, maxSpeculativeDepth, postRebaseReviewAgent
  loop,            \* the position and locals of processLoop / landPrefix / evictEntry
  calls,           \* the enqueue calls made so far and what each has received
  mainLocal,       \* the tickets the local main bookmark has been moved over, in order
  mainRemote,      \* the same for the pushed main
  round,           \* what the current round of processLoop has done (history)
  activeLoops,     \* invocations of processLoop that have not returned (history)
  faults,          \* failing outcomes the VCS, the review agent and CI have given
  iteration,       \* the Ralph loop's current iteration
  outputs,         \* the output store: rows [table, nodeId, iteration, tickets]
  schedules,       \* the ticket_schedule rows of node "ticket-scheduler"
  mergeRows,       \* the merge_queue_result rows, in the order they were written
  scheduledTasks,  \* the scheduled_tasks table, in the order of created_at_ms
  clock,           \* Date.now() as a logical clock
  obeyed,          \* every scheduler output so far kept the rules of its prompt (history)
  applied,         \* what the selector or helper applied last has returned
  attempts,        \* the engine's attempts table: [nodeId, iteration, n, agent, state]
  dashboard,       \* the monitor TUI: "idle", "running", "stopped" or "crashed"
  agents           \* AgentRegistry.agents: agent id -> InternalAgentState

qvars == <<config, registry, entries, enqueueCounter, processing, coord, loop, calls,
           mainLocal, mainRemote, round, activeLoops, faults>>

pvars == <<iteration, outputs, schedules, mergeRows, scheduledTasks, clock, obeyed,
           applied, attempts, dashboard, agents>>

vars == <<mode, config, registry, entries, enqueueCounter, processing, coord, loop, calls,
          mainLocal, mainRemote, round, activeLoops, faults,
          iteration, outputs, schedules, mergeRows, scheduledTasks, clock, obeyed,
          applied, attempts, dashboard, agents>>

(***************************************************************************)
(* QueueEntry and MergeQueueLandResult                                     *)
(***************************************************************************)
\* result is <<>> (undefined) or <<r>>
NoEntry ==
  [status |-> "absent", readyForQueue |-> FALSE, enqueueSeq |-> 0, snapshotIndex |-> 0,
   invalidatedCount |-> 0, reportIteration |-> 0, result |-> <<>>, waiters |-> <<>>,
   resolvedIteration |-> 0]

notReadyResult ==
  [merged |-> FALSE, ciPassed |-> FALSE, evicted |-> FALSE, evictionReason |-> "null",
   evictionDetails |-> "null", retested |-> 0, context |-> FALSE]

landedResult(note) ==
  [merged |-> TRUE, ciPassed |-> TRUE, evicted |-> FALSE, evictionReason |-> "null",
   evictionDetails |-> "null", retested |-> note, context |-> FALSE]

\* an eviction result that reports the checks as passed
evictedResult_CiPassed(reason, details, note) ==
  [merged |-> FALSE, ciPassed |-> TRUE, evicted |-> TRUE, evictionReason |-> reason,
   evictionDetails |-> details, retested |-> note, context |-> TRUE]

evictedResult(reason, details, note) ==
  [merged |-> FALSE, ciPassed |-> FALSE, evicted |-> TRUE, evictionReason |-> reason,
   evictionDetails |-> details, retested |-> note, context |-> TRUE]

(***************************************************************************)
(* upsertEntry, ingestSnapshot                                             *)
(* A coordinator state is passed as a record c with the fields entries and *)
(* enqueueCounter.                                                         *)
(***************************************************************************)
upsertEntry(c, ticketId, reportIteration, snapshotIndex, readyForQueue) ==
  LET existing == c.entries[ticketId] IN
  IF existing.status = "absent"
  THEN [entries |-> [c.entries EXCEPT ![ticketId] =
                       [status |-> "pending", readyForQueue |-> readyForQueue,
                        enqueueSeq |-> c.enqueueCounter, snapshotIndex |-> snapshotIndex,
                        invalidatedCount |-> 0, reportIteration |-> reportIteration,
                        result |-> <<>>, waiters |-> <<>>, resolvedIteration |-> 0]],
        enqueueCounter |-> c.enqueueCounter + 1]
  ELSE LET higher == reportIteration > existing.reportIteration
           reopened == IF higher
                       THEN [existing EXCEPT !.status = "pending", !.result = <<>>,
                                             !.invalidatedCount = 0, !.waiters = <<>>,
                                             !.enqueueSeq = c.enqueueCounter]
                       ELSE existing
           merged == [reopened EXCEPT !.reportIteration = reportIteration,
                                      !.readyForQueue = reopened.readyForQueue \/ readyForQueue,
                                      !.snapshotIndex = snapshotIndex]
       IN [entries |-> [c.entries EXCEPT ![ticketId] = merged],
           enqueueCounter |-> IF higher THEN c.enqueueCounter + 1 ELSE c.enqueueCounter]

\* snapshot.forEach((ticket, idx) => upsertEntry(ticket, idx, true)), from index idx on
RECURSIVE ingestFrom(_, _, _)
ingestFrom(c, snapshot, idx) ==
  IF idx > Len(snapshot) THEN c
  ELSE ingestFrom(upsertEntry(c, snapshot[idx].ticketId, snapshot[idx].reportIteration,
                              idx - 1, TRUE),
                  snapshot, idx + 1)

ingestSnapshot(c, snapshot) == ingestFrom(c, snapshot, 1)

\* queueSnapshot.findIndex(t => t.ticketId === ticketId), or MAX_SAFE_INTEGER
requestIndex(snapshot, ticketId) ==
  IF \E i \in 1..Len(snapshot) : snapshot[i].ticketId = ticketId
  THEN (CHOOSE i \in 1..Len(snapshot) :
          /\ snapshot[i].ticketId = ticketId
          /\ \A j \in 1..(i - 1) : snapshot[j].ticketId # ticketId) - 1
  ELSE MAX_SAFE_INTEGER

(***************************************************************************)
(* getOrderedPendingEntries                                                *)
(***************************************************************************)
\* the comparator of report-complete-fifo used for every strategy
sortsBefore_FifoOnly(es, strategy, a, b) ==
  IF es[a].reportIteration # es[b].reportIteration
  THEN es[a].reportIteration < es[b].reportIteration
  ELSE es[a].enqueueSeq < es[b].enqueueSeq

\* the comparator of the strategy: a sorts before b
sortsBefore(es, strategy, a, b) ==
  LET ea == es[a]
      eb == es[b]
      rankA == priorityRank(PriorityOf(a))
      rankB == priorityRank(PriorityOf(b))
  IN CASE strategy = "priority" ->
            IF rankA # rankB THEN rankA < rankB
            ELSE IF ea.reportIteration # eb.reportIteration
                 THEN ea.reportIteration < eb.reportIteration
                 ELSE ea.enqueueSeq < eb.enqueueSeq
       [] strategy = "ticket-order" ->
            IF ea.snapshotIndex # eb.snapshotIndex THEN ea.snapshotIndex < eb.snapshotIndex
            ELSE ea.enqueueSeq < eb.enqueueSeq
       [] OTHER ->
            IF ea.reportIteration # eb.reportIteration
            THEN ea.reportIteration < eb.reportIteration
            ELSE ea.enqueueSeq < eb.enqueueSeq

pendingFilter(e) == e.status = "pending" /\ e.readyForQueue

RECURSIVE sortEntries(_, _, _)
sortEntries(es, strategy, S) ==
  IF S = {} THEN <<>>
  ELSE LET first == CHOOSE a \in S : \A b \in S \ {a} : sortsBefore(es, strategy, a, b)
       IN <<first>> \o sortEntries(es, strategy, S \ {first})

getOrderedPendingEntries(es, strategy) ==
  sortEntries(es, strategy, {t \in QTickets : pendingFilter(es[t])})

(***************************************************************************)
(* The coordinator as a record m: entries, enqueueCounter, processing,     *)
(* coord, loop, calls, mainLocal, mainRemote, round, activeLoops.  Each    *)
(* operator below is one synchronous stretch of the code, from one await   *)
(* to the next.                                                            *)
(***************************************************************************)
IdleLoop ==
  [pc |-> "idle", window |-> <<>>, i |-> 0, prefix |-> <<>>, target |-> "none",
   reason |-> "none", details |-> "none", ret |-> "none", after |-> "none",
   failIdx |-> 0, failReason |-> "none", failDetails |-> "none", note |-> 0]

\* history of one round: where main stood, the review and CI verdicts per window
\* index (<<>> while not run), how fast-forward and push ended, who was resolved
NoRound ==
  [mainStart |-> <<>>, rebased |-> <<>>, review |-> <<>>, ci |-> <<>>, ff |-> "none",
   push |-> "none", pushes |-> 0, landed |-> {}, evicted |-> {}, bumped |-> {},
   selectedAt |-> 0]

Min(a, b) == IF a < b THEN a ELSE b
Max(a, b) == IF a > b THEN a ELSE b

RECURSIVE resolveWaiters(_, _, _)
resolveWaiters(cs, waiters, result) ==
  IF waiters = <<>> THEN cs
  ELSE resolveWaiters(
         [cs EXCEPT ![Head(waiters)] =
            [@ EXCEPT !.state = "returned", !.outcomes = @ + 1, !.result = <<result>>]],
         Tail(waiters), result)

\* resolveEntry: publish the result to the waiters registered at this moment
resolveEntry(m, t, result) ==
  [m EXCEPT !.entries[t] = [@ EXCEPT !.status = "resolved", !.readyForQueue = FALSE,
                                     !.result = <<result>>, !.waiters = <<>>,
                                     !.resolvedIteration = m.entries[t].reportIteration],
            !.calls = resolveWaiters(@, m.entries[t].waiters, result),
            !.round = IF result.merged
                      THEN [@ EXCEPT !.landed = @ \cup {t}]
                      ELSE [@ EXCEPT !.evicted = @ \cup {<<t, result.evictionReason>>}]]

\* the head of processLoop's while (true): take the window, start fetchMain
loopTop(m) ==
  LET pending == getOrderedPendingEntries(m.entries, m.coord.orderingStrategy) IN
  IF pending = <<>>
  THEN [m EXCEPT !.loop = [IdleLoop EXCEPT !.pc = "returned"],
                 !.round = NoRound,
                 !.activeLoops = @ - 1]
  ELSE [m EXCEPT !.loop = [IdleLoop EXCEPT
                             !.pc = "fetch",
                             !.window = SubSeq(pending, 1,
                                          Min(m.coord.maxSpeculativeDepth, Len(pending)))],
                 !.round = [NoRound EXCEPT !.mainStart = m.mainLocal,
                                           !.selectedAt = Len(m.calls)]]

\* ensureProcessing without the check of this.processing
ensureProcessing_Unguarded(m) ==
  loopTop([m EXCEPT !.processing = TRUE, !.activeLoops = @ + 1])

\* ensureProcessing: start processLoop unless one is recorded as running
ensureProcessing(m) ==
  IF m.processing THEN m
  ELSE loopTop([m EXCEPT !.processing = TRUE, !.activeLoops = @ + 1])

\* evictEntry cleaning up without collecting the eviction context first
evictEntry_SkipsContext(m, t, reason, details, ret) ==
  [m EXCEPT !.loop = [@ EXCEPT !.pc = "evict_cleanup", !.target = t, !.reason = reason,
                               !.details = details, !.ret = ret]]

\* evictEntry up to its first await (collectEvictionContext)
evictEntry(m, t, reason, details, ret) ==
  [m EXCEPT !.loop = [@ EXCEPT !.pc = "evict_context", !.target = t, !.reason = reason,
                               !.details = details, !.ret = ret]]

\* landPrefix up to its first await (fastForwardMain); entries is never empty here
landPrefix(m, prefix, after) ==
  [m EXCEPT !.loop = [@ EXCEPT !.pc = "fast_forward", !.prefix = prefix, !.i = 0,
                               !.after = after]]

\* for (const follower of window.slice(failIdx + 1)) follower.invalidatedCount += 1
bumpFollowers(m, failIdx) ==
  LET followers == {m.loop.window[j] : j \in (failIdx + 1)..Len(m.loop.window)} IN
  [m EXCEPT !.entries = [t \in QTickets |->
                           IF t \in followers
                           THEN [@[t] EXCEPT !.invalidatedCount = @ + 1]
                           ELSE @[t]],
            !.round = [@ EXCEPT !.bumped = followers]]

\* what follows landPrefix in processLoop: continue, or invalidate the followers and
\* evict the failed entry
afterLandPrefix(m) ==
  IF m.loop.after = "failtail"
  THEN evictEntry(bumpFollowers(m, m.loop.failIdx), m.loop.window[m.loop.failIdx],
                  m.loop.failReason, m.loop.failDetails, "top")
  ELSE loopTop(m)

\* index of the first FALSE of a verdict sequence, 0 when there is none (findIndex)
firstFalse(v) ==
  IF \E i \in 1..Len(v) : ~v[i]
  THEN CHOOSE i \in 1..Len(v) : ~v[i] /\ \A j \in 1..(i - 1) : v[j]
  ELSE 0

\* the failure branch landing window.slice(0, failIdx + 1): the failed entry too
failAt_LandsThroughFailed(m, k, reason, details) ==
  landPrefix([m EXCEPT !.loop = [@ EXCEPT !.failIdx = k, !.failReason = reason,
                                          !.failDetails = details]],
             SubSeq(m.loop.window, 1, k), "failtail")

\* the failure branch shared by the review gate and CI
failAt(m, k, reason, details) ==
  IF k > 1
  THEN landPrefix([m EXCEPT !.loop = [@ EXCEPT !.failIdx = k, !.failReason = reason,
                                               !.failDetails = details]],
                  SubSeq(m.loop.window, 1, k - 1), "failtail")
  ELSE evictEntry(bumpFollowers(m, k), m.loop.window[k], reason, details, "top")

\* fetchDone starting the next round after a failed fetch, evicting nothing
fetchDone_RetriesRound(m, ok) ==
  IF ok
  THEN [m EXCEPT !.loop = [@ EXCEPT !.pc = "rebase", !.i = 1]]
  ELSE loopTop(m)

fetchDone(m, ok) ==
  IF ok
  THEN [m EXCEPT !.loop = [@ EXCEPT !.pc = "rebase", !.i = 1]]
  ELSE evictEntry(m, m.loop.window[1], "fetch_failed", "fetchMain.details", "top")

\* rebaseDone evicting the head of the window, as a failed fetch does
rebaseDone_EvictsHead(m, ok) ==
  LET i == m.loop.i
      onto == IF i = 1 THEN "main" ELSE m.loop.window[i - 1]
      m1 == [m EXCEPT !.round = [@ EXCEPT !.rebased = Append(@, onto)]]
  IN IF ~ok
     THEN evictEntry(m, m.loop.window[1], "rebase_conflict", "rebase.details", "top")
     ELSE IF i < Len(m.loop.window)
          THEN [m1 EXCEPT !.loop = [@ EXCEPT !.i = i + 1]]
          ELSE [m1 EXCEPT !.loop = [@ EXCEPT !.i = 0,
                                     !.pc = IF m.coord.postRebaseReviewAgent
                                            THEN "review" ELSE "ci"]]

\* rebaseDone rebasing every window entry onto main
rebaseDone_OntoMain(m, ok) ==
  LET i == m.loop.i
      m1 == [m EXCEPT !.round = [@ EXCEPT !.rebased = Append(@, "main")]]
  IN IF ~ok
     THEN evictEntry(m, m.loop.window[i], "rebase_conflict", "rebase.details", "top")
     ELSE IF i < Len(m.loop.window)
          THEN [m1 EXCEPT !.loop = [@ EXCEPT !.i = i + 1]]
          ELSE [m1 EXCEPT !.loop = [@ EXCEPT !.i = 0,
                                     !.pc = IF m.coord.postRebaseReviewAgent
                                            THEN "review" ELSE "ci"]]

\* rebase of window[i] onto main (i = 1) or onto the bookmark of window[i-1]
rebaseDone(m, ok) ==
  LET i == m.loop.i
      onto == IF i = 1 THEN "main" ELSE m.loop.window[i - 1]
      m1 == [m EXCEPT !.round = [@ EXCEPT !.rebased = Append(@, onto)]]
  IN IF ~ok
     THEN evictEntry(m, m.loop.window[i], "rebase_conflict", "rebase.details", "top")
     ELSE IF i < Len(m.loop.window)
          THEN [m1 EXCEPT !.loop = [@ EXCEPT !.i = i + 1]]
          ELSE [m1 EXCEPT !.loop = [@ EXCEPT !.i = 0,
                                     !.pc = IF m.coord.postRebaseReviewAgent
                                            THEN "review" ELSE "ci"]]

\* approved[i]: the review agent did not reject window[i]
reviewDone(m, approved) ==
  LET k == firstFalse(approved)
      m1 == [m EXCEPT !.round = [@ EXCEPT !.review = approved]]
  IN IF k = 0
     THEN [m1 EXCEPT !.loop = [@ EXCEPT !.pc = "ci"]]
     ELSE failAt(m1, k, "review_failed", "review.reason")

\* passed[i]: runCi of window[i] passed
ciDone(m, passed) ==
  LET k == firstFalse(passed)
      m1 == [m EXCEPT !.round = [@ EXCEPT !.ci = passed]]
  IN IF k = 0
     THEN landPrefix(m1, m1.loop.window, "top")
     ELSE failAt(m1, k, "ci_failed", "runCi.details")

\* for (const entry of entries) await evictEntry(entry, reason, details): start with
\* the entry at index i of the prefix
evictEach(m, i, reason, details) ==
  evictEntry([m EXCEPT !.loop = [@ EXCEPT !.i = i]], m.loop.prefix[i], reason, details,
             "each")

fastForwardDone(m, ok) ==
  IF ok
  THEN [m EXCEPT !.mainLocal = m.mainLocal \o m.loop.prefix,
                 !.round = [@ EXCEPT !.ff = "ok"],
                 !.loop = [@ EXCEPT !.pc = "push"]]
  ELSE evictEach([m EXCEPT !.round = [@ EXCEPT !.ff = "failed"]], 1,
                 "fast_forward_failed", "fastForwardMain.details")

pushDone(m, ok) ==
  IF ok
  THEN [m EXCEPT !.mainRemote = m.mainLocal,
                 !.round = [@ EXCEPT !.push = "ok", !.pushes = @ + 1],
                 !.loop = [@ EXCEPT !.pc = "land_read", !.i = 1]]
  ELSE evictEach([m EXCEPT !.round = [@ EXCEPT !.push = "failed", !.pushes = @ + 1]], 1,
                 "push_failed", "pushMain.details")

\* readCommitId returned: the retest note is taken from invalidatedCount now
landReadDone(m) ==
  [m EXCEPT !.loop = [@ EXCEPT !.pc = "land_cleanup",
                               !.note = m.entries[m.loop.prefix[m.loop.i]].invalidatedCount]]

\* cleanupTicket returned: resolve as landed, go on with the next entry
landCleanupDone(m) ==
  LET i == m.loop.i
      m1 == resolveEntry(m, m.loop.prefix[i], landedResult(m.loop.note))
  IN IF i < Len(m.loop.prefix)
     THEN [m1 EXCEPT !.loop = [@ EXCEPT !.pc = "land_read", !.i = i + 1, !.note = 0]]
     ELSE afterLandPrefix(m1)

evictContextDone(m) == [m EXCEPT !.loop = [@ EXCEPT !.pc = "evict_cleanup"]]

\* cleanupTicket returned inside evictEntry: the note is read now, then resolveEntry
evictCleanupDone(m) ==
  LET t == m.loop.target
      m1 == resolveEntry(m, t, evictedResult(m.loop.reason, m.loop.details,
                                             m.entries[t].invalidatedCount))
      m2 == [m1 EXCEPT !.loop = [@ EXCEPT !.target = "none", !.reason = "none",
                                          !.details = "none", !.ret = "none"]]
  IN IF m.loop.ret = "each"
     THEN IF m.loop.i < Len(m.loop.prefix)
          THEN evictEach(m2, m.loop.i + 1, m.loop.reason, m.loop.details)
          ELSE afterLandPrefix(m2)
     ELSE loopTop(m2)

\* the .finally callback of ensureProcessing
finallyDone(m) ==
  LET m1 == [m EXCEPT !.processing = FALSE, !.loop = IdleLoop] IN
  IF getOrderedPendingEntries(m1.entries, m1.coord.orderingStrategy) # <<>>
  THEN ensureProcessing(m1)
  ELSE m1

\* enqueue, as call number id, up to its await of the result promise
enqueue(m, id, cfg, ticketId, reportIteration, readyForQueue, snapshot) ==
  LET coord1 == [orderingStrategy |-> cfg.orderingStrategy,
                 maxSpeculativeDepth |-> Max(1, cfg.maxSpeculativeDepth),
                 postRebaseReviewAgent |->
                   m.coord.postRebaseReviewAgent \/ cfg.postRebaseReviewAgent]
      c1 == ingestSnapshot([entries |-> m.entries, enqueueCounter |-> m.enqueueCounter],
                           snapshot)
      c2 == upsertEntry(c1, ticketId, reportIteration, requestIndex(snapshot, ticketId),
                        readyForQueue)
      entry == c2.entries[ticketId]
      call == [ticketId |-> ticketId, reportIteration |-> reportIteration,
               readyForQueue |-> readyForQueue, snapshotLen |-> Len(snapshot),
               state |-> "awaiting", outcomes |-> 0, result |-> <<>>]
      returned(r) == [call EXCEPT !.state = "returned", !.outcomes = 1, !.result = <<r>>]
      m1 == [m EXCEPT !.coord = coord1, !.entries = c2.entries,
                      !.enqueueCounter = c2.enqueueCounter]
  IN IF ~readyForQueue
     THEN [m1 EXCEPT !.calls = Append(@, returned(notReadyResult))]
     ELSE IF /\ entry.status = "resolved"
             /\ entry.result # <<>>
             /\ reportIteration <= entry.reportIteration
          THEN [m1 EXCEPT !.calls = Append(@, returned(entry.result[1]))]
          ELSE LET reopened ==
                     IF reportIteration > entry.reportIteration
                     THEN [entry EXCEPT !.reportIteration = reportIteration,
                                        !.status = "pending", !.readyForQueue = TRUE,
                                        !.invalidatedCount = 0, !.result = <<>>]
                     ELSE entry
               IN ensureProcessing(
                    [m1 EXCEPT !.entries[ticketId] =
                                 [reopened EXCEPT !.waiters = Append(@, id)],
                               !.calls = Append(@, call)])

(***************************************************************************)
(* The SuperRalph frame: tickets, tiers and the context accessors          *)
(***************************************************************************)
\* maxConcurrency of the SuperRalph props
maxConcurrency == 2

PTickets == {"T1", "T2"}

\* Ticket.complexityTier of the tickets discovery reports
complexityTier(t) == IF t = "T1" THEN "trivial" ELSE "small"

AgentIds == {"a1", "a2"}

COMPLEXITY_TIERS(tier) ==
  CASE tier = "trivial" -> <<"implement", "build-verify">>
    [] tier = "small" -> <<"implement", "test", "build-verify">>
    [] tier = "medium" ->
         <<"research", "plan", "implement", "test", "build-verify", "code-review">>
    [] OTHER ->
         <<"research", "plan", "implement", "test", "build-verify", "spec-review",
           "code-review", "review-fix", "report">>

getTierStages(tier) == COMPLEXITY_TIERS(tier)

getTierFinalStage(tier) == COMPLEXITY_TIERS(tier)[Len(COMPLEXITY_TIERS(tier))]

\* a node id `${ticketId}:${suffix}`; global nodes have the ticket "-"
NodeId(ticketId, suffix) == <<ticketId, suffix>>

\* the stages whose jobs the scheduler of the model names
ScheduledStages == {"implement", "test", "build-verify"}

JobTypeOfStage(stage) ==
  CASE stage = "research" -> "ticket:research"
    [] stage = "plan" -> "ticket:plan"
    [] stage = "implement" -> "ticket:implement"
    [] stage = "test" -> "ticket:test"
    [] stage = "build-verify" -> "ticket:build-verify"
    [] stage = "spec-review" -> "ticket:spec-review"
    [] stage = "code-review" -> "ticket:code-review"
    [] stage = "review-fix" -> "ticket:review-fix"
    [] OTHER -> "ticket:report"

StageOfJobType(jobType) ==
  CASE jobType = "ticket:implement" -> "implement"
    [] jobType = "ticket:test" -> "test"
    [] jobType = "ticket:build-verify" -> "build-verify"
    [] OTHER -> "none"

JOB_TYPE_TO_OUTPUT_KEY(jobType) ==
  CASE jobType = "discovery" -> "discover"
    [] jobType = "progress-update" -> "progress"
    [] jobType = "codebase-review" -> "category_review"
    [] jobType = "integration-test" -> "integration_test"
    [] jobType = "ticket:research" -> "research"
    [] jobType = "ticket:plan" -> "plan"
    [] jobType = "ticket:implement" -> "implement"
    [] jobType = "ticket:test" -> "test_results"
    [] jobType = "ticket:build-verify" -> "build_verify"
    [] jobType = "ticket:spec-review" -> "spec_review"
    [] jobType = "ticket:code-review" -> "code_review"
    [] jobType = "ticket:review-fix" -> "review_fix"
    [] jobType = "ticket:report" -> "report"
    [] OTHER -> "undefined"

\* ctx.outputMaybe(table, { nodeId }): a row of the current iteration exists
outputMaybe(ctx, table, nodeId) ==
  \E r \in ctx.outputs :
    r.table = table /\ r.nodeId = nodeId /\ r.iteration = ctx.iteration

\* ctx.latest(table, nodeId): a row of any iteration exists
latest(ctx, table, nodeId) ==
  \E r \in ctx.outputs : r.table = table /\ r.nodeId = nodeId

\* ctx.latest("ticket_schedule", "ticket-scheduler")?.jobs, <<>> when there is no row
latestSchedule(ctx) ==
  IF ctx.schedules = {} THEN <<>>
  ELSE (CHOOSE r \in ctx.schedules :
          \A q \in ctx.schedules : q.iteration <= r.iteration).jobs

PIPELINE_STAGES_REVERSE ==
  << [output |-> "land", suffix |-> "land", stage |-> "landed"],
     [output |-> "report", suffix |-> "report", stage |-> "report"],
     [output |-> "review_fix", suffix |-> "review-fix", stage |-> "review_fix"],
     [output |-> "code_review", suffix |-> "code-review", stage |-> "code_review"],
     [output |-> "spec_review", suffix |-> "spec-review", stage |-> "spec_review"],
     [output |-> "build_verify", suffix |-> "build-verify", stage |-> "build_verify"],
     [output |-> "test_results", suffix |-> "test", stage |-> "test"],
     [output |-> "implement", suffix |-> "implement", stage |-> "implement"],
     [output |-> "plan", suffix |-> "plan", stage |-> "plan"],
     [output |-> "research", suffix |-> "research", stage |-> "research"] >>

RECURSIVE pipelineStageFrom(_, _, _)
pipelineStageFrom(ctx, ticketId, i) ==
  IF i > Len(PIPELINE_STAGES_REVERSE) THEN "not_started"
  ELSE LET entry == PIPELINE_STAGES_REVERSE[i] IN
       IF outputMaybe(ctx, entry.output, NodeId(ticketId, entry.suffix))
       THEN entry.stage
       ELSE pipelineStageFrom(ctx, ticketId, i + 1)

computePipelineStage(ctx, ticketId) == pipelineStageFrom(ctx, ticketId, 1)

\* isJobComplete looking across iterations for every job type
isJobComplete_CrossIteration(ctx, job) ==
  LET outputKey == JOB_TYPE_TO_OUTPUT_KEY(job.jobType) IN
  IF outputKey = "undefined" THEN FALSE
  ELSE latest(ctx, outputKey, job.jobId)

isJobComplete(ctx, job) ==
  LET outputKey == JOB_TYPE_TO_OUTPUT_KEY(job.jobType) IN
  IF outputKey = "undefined" THEN FALSE
  ELSE outputMaybe(ctx, outputKey, job.jobId)

\* stages.indexOf(stage), 1-based, 0 when absent
indexOf(stages, stage) ==
  IF \E i \in 1..Len(stages) : stages[i] = stage
  THEN CHOOSE i \in 1..Len(stages) : stages[i] = stage /\ \A j \in 1..(i - 1) : stages[j] # stage
  ELSE 0

\* the stages the "Next Stages" column lists, <<>> for "(done)"
getNextStagesForTier(tier, currentStage) ==
  LET stages == COMPLEXITY_TIERS(tier)
      idx == indexOf(stages, currentStage)
  IN IF currentStage = "not_started" THEN <<stages[1]>>
     ELSE IF idx = 0 \/ idx >= Len(stages) THEN <<>>
     ELSE SubSeq(stages, idx + 1, Len(stages))

(***************************************************************************)
(* selectors.ts                                                            *)
(***************************************************************************)
selectDiscoverTickets(ctx) ==
  UNION {r.tickets : r \in {q \in ctx.outputs :
                              q.table = "discover" /\ q.nodeId = NodeId("-", "discovery")}}

\* selectLand: "merged", "evicted" or "none".  No job type writes the land table, so
\* the direct row is absent and the merge_queue_result rows are scanned in order.
RECURSIVE selectLandFrom(_, _, _)
selectLandFrom(ctx, ticketId, i) ==
  IF i > Len(ctx.mergeRows) THEN "none"
  ELSE IF ticketId \in ctx.mergeRows[i].ticketsLanded THEN "merged"
  ELSE IF ticketId \in ctx.mergeRows[i].ticketsEvicted THEN "evicted"
  ELSE selectLandFrom(ctx, ticketId, i + 1)

selectLand(ctx, ticketId) == selectLandFrom(ctx, ticketId, 1)

selectCompletedTicketIds(ctx, tickets) ==
  {t \in tickets : selectLand(ctx, t) = "merged"}

\* selectAllTickets(ctx).unfinished
unfinishedTickets(ctx) ==
  selectDiscoverTickets(ctx) \ selectCompletedTicketIds(ctx, selectDiscoverTickets(ctx))

\* isTicketTierComplete asking for a row of every stage of the tier
isTicketTierComplete_AllStages(ctx, ticketId, tier) ==
  \A j \in 1..Len(getTierStages(tier)) :
    latest(ctx, JOB_TYPE_TO_OUTPUT_KEY(JobTypeOfStage(getTierStages(tier)[j])),
           NodeId(ticketId, getTierStages(tier)[j]))

isTicketTierComplete(ctx, ticketId, tier) ==
  LET finalStage == getTierFinalStage(tier)
      output == CASE finalStage = "implement" -> "implement"
                  [] finalStage = "test" -> "test_results"
                  [] finalStage = "build-verify" -> "build_verify"
                  [] finalStage = "code-review" -> "code_review"
                  [] finalStage = "spec-review" -> "spec_review"
                  [] finalStage = "review-fix" -> "review_fix"
                  [] finalStage = "report" -> "report"
                  [] OTHER -> "undefined"
  IN IF output = "undefined" THEN FALSE
     ELSE latest(ctx, output, NodeId(ticketId, finalStage))

(***************************************************************************)
(* SuperRalph: ticket states, merge-queue tickets, reap, reconcile, read   *)
(***************************************************************************)
ticketStates(ctx) ==
  [t \in unfinishedTickets(ctx) |->
     [pipelineStage |-> computePipelineStage(ctx, t),
      landed |-> selectLand(ctx, t) = "merged",
      tierComplete |-> IF selectLand(ctx, t) = "evicted" THEN FALSE
                       ELSE isTicketTierComplete(ctx, t, complexityTier(t))]]

\* mergeQueueTickets filtering on !landed alone
mergeQueueTickets_IgnoresTier(ctx) ==
  {t \in unfinishedTickets(ctx) : ~ticketStates(ctx)[t].landed}

mergeQueueTickets(ctx) ==
  {t \in unfinishedTickets(ctx) :
     ticketStates(ctx)[t].tierComplete /\ ~ticketStates(ctx)[t].landed}

\* scheduled_tasks, kept in the order of created_at_ms
getActiveJobs(db) == db

RECURSIVE removeJob(_, _)
removeJob(db, jobId) ==
  IF db = <<>> THEN <<>>
  ELSE IF Head(db).jobId = jobId THEN removeJob(Tail(db), jobId)
  ELSE <<Head(db)>> \o removeJob(Tail(db), jobId)

\* INSERT OR REPLACE
insertJob_Replace(db, job) == Append(removeJob(db, job.jobId), job)

\* INSERT OR IGNORE
insertJob(db, job) ==
  IF \E i \in 1..Len(db) : db[i].jobId = job.jobId THEN db ELSE Append(db, job)

RECURSIVE reapFrom(_, _, _)
reapFrom(ctx, db, jobs) ==
  IF jobs = <<>> THEN db
  ELSE reapFrom(ctx,
                IF isJobComplete(ctx, Head(jobs)) THEN removeJob(db, Head(jobs).jobId)
                ELSE db,
                Tail(jobs))

reap(ctx, db) == reapFrom(ctx, db, getActiveJobs(db))

RECURSIVE reconcileFrom(_, _, _, _)
\* a reconcile that leaves its loop after the first job it inserts
reconcileFrom_OnePerFrame(ctx, db, jobs, nowMs) ==
  LET missing == {i \in 1..Len(jobs) :
                    /\ ~isJobComplete(ctx, jobs[i])
                    /\ \A k \in 1..Len(db) : db[k].jobId # jobs[i].jobId}
      first == CHOOSE i \in missing : \A j \in missing : i <= j
  IN IF missing = {} THEN db
     ELSE Append(db, [jobId |-> jobs[first].jobId, jobType |-> jobs[first].jobType,
                      agentId |-> jobs[first].agentId, ticketId |-> jobs[first].ticketId,
                      createdAtMs |-> nowMs])

reconcileFrom(ctx, db, jobs, nowMs) ==
  IF jobs = <<>> THEN db
  ELSE LET job == Head(jobs)
           scheduled == [jobId |-> job.jobId, jobType |-> job.jobType,
                         agentId |-> job.agentId, ticketId |-> job.ticketId,
                         createdAtMs |-> nowMs]
       IN reconcileFrom(ctx,
                        IF ~isJobComplete(ctx, scheduled) THEN insertJob(db, scheduled)
                        ELSE db,
                        Tail(jobs), nowMs)

reconcile(ctx, db, nowMs) == reconcileFrom(ctx, db, latestSchedule(ctx), nowMs)

\* one frame of SuperRalph on the store: reap, then reconcile; the read is the result
frame(ctx, db, nowMs) == reconcile(ctx, reap(ctx, db), nowMs)

(***************************************************************************)
(* The scheduler's rules (its prompt) as predicates on one output          *)
(***************************************************************************)
\* rule 3 read as "a stage of the ticket's tier", not "the next stage"
obeysNextStage_AnyTierStage(ctx, jobs) ==
  \A i \in 1..Len(jobs) :
    jobs[i].ticketId # "-" =>
      /\ jobs[i].ticketId \in unfinishedTickets(ctx)
      /\ indexOf(COMPLEXITY_TIERS(complexityTier(jobs[i].ticketId)),
                 StageOfJobType(jobs[i].jobType)) # 0

\* rule 3: a pipeline job is the next stage of its ticket's tier, as the "Next
\* Stages" column of the ticket table shows it
obeysNextStage(ctx, jobs) ==
  \A i \in 1..Len(jobs) :
    jobs[i].ticketId # "-" =>
      /\ jobs[i].ticketId \in unfinishedTickets(ctx)
      /\ LET next == getNextStagesForTier(complexityTier(jobs[i].ticketId),
                       ticketStates(ctx)[jobs[i].ticketId].pipelineStage)
         IN next # <<>> /\ jobs[i].jobType = JobTypeOfStage(next[1])

\* rule 7: no job that is already running, no second pipeline job of a ticket
obeysDontDoubleSchedule(activeJobs, jobs) ==
  \A i \in 1..Len(jobs), k \in 1..Len(activeJobs) :
    /\ jobs[i].jobId # activeJobs[k].jobId
    /\ jobs[i].ticketId # "-" => jobs[i].ticketId # activeJobs[k].ticketId

\* rule 10: no pipeline job for a ticket whose tier is done
obeysTierCompletion(ctx, jobs) ==
  \A i \in 1..Len(jobs) :
    (jobs[i].ticketId # "-" /\ jobs[i].ticketId \in unfinishedTickets(ctx)) =>
      ~ticketStates(ctx)[jobs[i].ticketId].tierComplete

obeysRules(ctx, activeJobs, jobs) ==
  /\ obeysNextStage(ctx, jobs)
  /\ obeysDontDoubleSchedule(activeJobs, jobs)
  /\ obeysTierCompletion(ctx, jobs)

(***************************************************************************)
(* Requests                                                                *)
(***************************************************************************)
\* the request fields every caller of one run passes, and the run's ticket order,
\* from which the callers build their queue snapshots
Configs ==
  { [orderingStrategy |-> "report-complete-fifo", maxSpeculativeDepth |-> 0,
     postRebaseReviewAgent |-> FALSE, queueOrder |-> <<"T1", "T2", "T3">>],
    [orderingStrategy |-> "priority", maxSpeculativeDepth |-> 3,
     postRebaseReviewAgent |-> TRUE, queueOrder |-> <<"T3", "T2", "T1">>],
    [orderingStrategy |-> "ticket-order", maxSpeculativeDepth |-> 2,
     postRebaseReviewAgent |-> FALSE, queueOrder |-> <<"T2", "T3", "T1">>] }

DefaultConfig ==
  [orderingStrategy |-> "report-complete-fifo", maxSpeculativeDepth |-> DefaultDepth,
   postRebaseReviewAgent |-> FALSE, queueOrder |-> <<>>]

ReportIterations == 1..MaxReportIteration

\* a queue snapshot: the first n tickets of the run's order, as reported at iteration it
Snapshot(cfg, n, it) ==
  [i \in 1..n |-> [ticketId |-> cfg.queueOrder[i], reportIteration |-> it]]

RECURSIVE Submitted(_)
Submitted(cs) ==
  IF cs = <<>> THEN 0 ELSE 1 + Head(cs).snapshotLen + Submitted(Tail(cs))

(***************************************************************************)
(* Initial state                                                           *)
(***************************************************************************)
QInit ==
  /\ registry = FALSE
  /\ entries = [t \in QTickets |-> NoEntry]
  /\ enqueueCounter = 0
  /\ processing = FALSE
  /\ coord = [orderingStrategy |-> "report-complete-fifo",
              maxSpeculativeDepth |-> DefaultDepth, postRebaseReviewAgent |-> FALSE]
  /\ loop = IdleLoop
  /\ calls = <<>>
  /\ mainLocal = <<>>
  /\ mainRemote = <<>>
  /\ round = NoRound
  /\ activeLoops = 0
  /\ faults = 0

(***************************************************************************)
(* Actions of the coordinator                                              *)
(***************************************************************************)
Machine ==
  [entries |-> entries, enqueueCounter |-> enqueueCounter, processing |-> processing,
   coord |-> coord, loop |-> loop, calls |-> calls, mainLocal |-> mainLocal,
   mainRemote |-> mainRemote, round |-> round, activeLoops |-> activeLoops]

Becomes(m) ==
  /\ entries' = m.entries
  /\ enqueueCounter' = m.enqueueCounter
  /\ processing' = m.processing
  /\ coord' = m.coord
  /\ loop' = m.loop
  /\ calls' = m.calls
  /\ mainLocal' = m.mainLocal
  /\ mainRemote' = m.mainRemote
  /\ round' = m.round
  /\ activeLoops' = m.activeLoops

\* runTicketThroughSpeculativeMergeQueue(request): get or create the coordinator of
\* the key, then enqueue
RunTicket ==
  /\ mode = "queue"
  /\ Len(calls) < MaxCalls
  /\ \E ticketId \in QTickets, reportIteration \in ReportIterations,
        readyForQueue \in BOOLEAN, n \in 0..Len(config.queueOrder) :
       /\ Submitted(calls) + 1 + n <= MaxSubmitted
       /\ Becomes(enqueue(Machine, Len(calls) + 1, config, ticketId, reportIteration,
                          readyForQueue, Snapshot(config, n, reportIteration)))
  /\ registry' = TRUE
  /\ UNCHANGED <<mode, config, faults>>
  /\ UNCHANGED pvars

\* the awaited operation at pc returns, with n failing outcomes, and the loop runs
\* on to its next await
LoopStep(pc, n, m) ==
  /\ mode = "queue"
  /\ loop.pc = pc
  /\ faults + n <= MaxFaults
  /\ faults' = faults + n
  /\ Becomes(m)
  /\ UNCHANGED <<mode, config, registry>>
  /\ UNCHANGED pvars

Cost(ok) == IF ok THEN 0 ELSE 1

Failures(v) == Cardinality({i \in 1..Len(v) : ~v[i]})

FetchMain == \E ok \in BOOLEAN : LoopStep("fetch", Cost(ok), fetchDone(Machine, ok))

Rebase == \E ok \in BOOLEAN : LoopStep("rebase", Cost(ok), rebaseDone(Machine, ok))

PostRebaseReview ==
  \E approved \in [1..Len(loop.window) -> BOOLEAN] :
    LoopStep("review", Failures(approved), reviewDone(Machine, approved))

RunCi ==
  \E passed \in [1..Len(loop.window) -> BOOLEAN] :
    LoopStep("ci", Failures(passed), ciDone(Machine, passed))

FastForwardMain ==
  \E ok \in BOOLEAN : LoopStep("fast_forward", Cost(ok), fastForwardDone(Machine, ok))

PushMain == \E ok \in BOOLEAN : LoopStep("push", Cost(ok), pushDone(Machine, ok))

ReadCommitId == LoopStep("land_read", 0, landReadDone(Machine))

LandCleanup == LoopStep("land_cleanup", 0, landCleanupDone(Machine))

CollectEvictionContext == LoopStep("evict_context", 0, evictContextDone(Machine))

EvictCleanup == LoopStep("evict_cleanup", 0, evictCleanupDone(Machine))

ProcessingFinally == LoopStep("returned", 0, finallyDone(Machine))

QNext ==
  \/ RunTicket
  \/ FetchMain
  \/ Rebase
  \/ PostRebaseReview
  \/ RunCi
  \/ FastForwardMain
  \/ PushMain
  \/ ReadCommitId
  \/ LandCleanup
  \/ CollectEvictionContext
  \/ EvictCleanup
  \/ ProcessingFinally

(***************************************************************************)
(* Initial state of the workflow: no output rows, an empty scheduled_tasks *)
(***************************************************************************)
\* nothing has been applied yet
NoResult == [fn |-> "none"]

PInit ==
  /\ iteration = 0
  /\ outputs = {}
  /\ schedules = {}
  /\ mergeRows = <<>>
  /\ scheduledTasks = <<>>
  /\ clock = 0
  /\ obeyed = TRUE
  /\ applied = NoResult
  /\ attempts = {}
  /\ dashboard = "idle"
  /\ agents = <<>>

(***************************************************************************)
(* Actions of the workflow.  The engine renders SuperRalph again after     *)
(* every change of the output store, so each action ends with the frame.   *)
(***************************************************************************)
Ctx ==
  [iteration |-> iteration, outputs |-> outputs, schedules |-> schedules,
   mergeRows |-> mergeRows]

\* a task has ended or the loop has advanced: the clock has moved on, and the store
\* becomes what the frame under ctx leaves
Render(ctx) ==
  /\ clock' = clock + 1
  /\ scheduledTasks' = frame(ctx, scheduledTasks, clock + 1)

\* the key of a row of one run
rowKey(row) == [table |-> row.table, nodeId |-> row.nodeId, iteration |-> row.iteration]

\* a store that adds the row whatever it holds
upsertOutput_Insert(rows, row) == rows \cup {row}

\* "Upsert into output table": the row replaces the row of its key, if there is one
upsertOutput(rows, row) ==
  {r \in rows : rowKey(r) # rowKey(row)} \cup {row}

Row(table, nodeId, tickets) ==
  [table |-> table, nodeId |-> nodeId, iteration |-> iteration, tickets |-> tickets]

\* what the scheduler agent may name: discovery, and the stages of unfinished tickets
JobIds(ctx) ==
  {NodeId("-", "discovery")}
  \cup {NodeId(t, stage) : t \in unfinishedTickets(ctx), stage \in ScheduledStages}

JobDescriptor(jobId, agentId) ==
  [jobId |-> jobId,
   jobType |-> IF jobId[1] = "-" THEN "discovery" ELSE JobTypeOfStage(jobId[2]),
   agentId |-> agentId, ticketId |-> jobId[1]]

\* the jobs array of a scheduler output naming the job ids ids, all given to agentId
RECURSIVE JobsOf(_, _)
JobsOf(ids, agentId) ==
  IF ids = {} THEN <<>>
  ELSE LET id == CHOOSE x \in ids : TRUE
       IN <<JobDescriptor(id, agentId)>> \o JobsOf(ids \ {id}, agentId)

\* the scheduler spreads the work over the pool: the outputs of the model give the
\* jobs of even iterations to one agent and those of odd iterations to the other
AgentOfOutput(ctx) == IF ctx.iteration % 2 = 0 THEN "a1" ELSE "a2"

ScheduleOutputs(ctx) ==
  {JobsOf(ids, AgentOfOutput(ctx)) :
     ids \in {S \in SUBSET JobIds(ctx) : Cardinality(S) <= MaxScheduleLen}}

schedulerRan(ctx) == \E r \in ctx.schedules : r.iteration = ctx.iteration

mergeQueueRan(ctx) ==
  \E i \in 1..Len(ctx.mergeRows) : ctx.mergeRows[i].iteration = ctx.iteration

\* <TicketScheduler> rendered whatever the number of active jobs
schedulerRendered_Always(activeJobs) == TRUE

\* {activeCount < maxConcurrency && <TicketScheduler ... />}
schedulerRendered(activeJobs) == Len(activeJobs) < maxConcurrency

\* const freeSlots = Math.max(0, maxConcurrency - activeJobs.length)
freeSlots(activeJobs) == Max(0, maxConcurrency - Len(activeJobs))

\* <TicketScheduler> is rendered while a slot is free; its task runs once an iteration
SchedulerTask ==
  /\ mode = "pipeline"
  /\ schedulerRendered(scheduledTasks)
  /\ ~schedulerRan(Ctx)
  /\ \E jobs \in ScheduleOutputs(Ctx) :
       /\ schedules' = schedules \cup {[iteration |-> iteration, jobs |-> jobs]}
       /\ obeyed' = (obeyed /\ obeysRules(Ctx, scheduledTasks, jobs))
       /\ Render([Ctx EXCEPT !.schedules = schedules'])
  /\ UNCHANGED <<mode, iteration, outputs, mergeRows, applied>>
  /\ UNCHANGED attempts
  /\ UNCHANGED <<dashboard, agents>>
  /\ UNCHANGED qvars

\* the task of an active job writes its output row; discovery reports the tickets
JobTask ==
  /\ mode = "pipeline"
  /\ \E k \in 1..Len(scheduledTasks) :
       LET job == scheduledTasks[k] IN
       /\ outputs' = upsertOutput(outputs,
            Row(JOB_TYPE_TO_OUTPUT_KEY(job.jobType), job.jobId,
                IF job.jobType = "discovery" THEN PTickets ELSE {}))
       /\ Render([Ctx EXCEPT !.outputs = outputs'])
  /\ UNCHANGED <<mode, iteration, schedules, mergeRows, obeyed, applied>>
  /\ UNCHANGED attempts
  /\ UNCHANGED <<dashboard, agents>>
  /\ UNCHANGED qvars

\* <AgenticMergeQueue> renders its task while it is handed tickets; the agent reports
\* each of them landed, evicted or skipped
MergeQueueTask ==
  /\ mode = "pipeline"
  /\ mergeQueueTickets(Ctx) # {}
  /\ ~mergeQueueRan(Ctx)
  /\ \E landed \in SUBSET mergeQueueTickets(Ctx) :
       \E evicted \in SUBSET (mergeQueueTickets(Ctx) \ landed) :
         /\ mergeRows' = Append(mergeRows, [iteration |-> iteration,
                                            ticketsLanded |-> landed,
                                            ticketsEvicted |-> evicted])
         /\ Render([Ctx EXCEPT !.mergeRows = mergeRows'])
  /\ UNCHANGED <<mode, iteration, outputs, schedules, obeyed, applied>>
  /\ UNCHANGED attempts
  /\ UNCHANGED <<dashboard, agents>>
  /\ UNCHANGED qvars

\* <Ralph>: every rendered child is terminal, the loop advances
AdvanceIteration ==
  /\ mode = "pipeline"
  /\ iteration < MaxIteration
  /\ scheduledTasks = <<>>
  /\ schedulerRan(Ctx)
  /\ mergeQueueTickets(Ctx) = {} \/ mergeQueueRan(Ctx)
  /\ iteration' = iteration + 1
  /\ Render([Ctx EXCEPT !.iteration = iteration + 1])
  /\ UNCHANGED <<mode, outputs, schedules, mergeRows, obeyed, applied>>
  /\ UNCHANGED attempts
  /\ UNCHANGED <<dashboard, agents>>
  /\ UNCHANGED qvars

\* a frame with an unchanged output store and an unchanged scheduler output
Rerender ==
  /\ mode = "pipeline"
  /\ scheduledTasks' = frame(Ctx, scheduledTasks, clock)
  /\ UNCHANGED <<mode, iteration, outputs, schedules, mergeRows, clock, obeyed, applied>>
  /\ UNCHANGED attempts
  /\ UNCHANGED <<dashboard, agents>>
  /\ UNCHANGED qvars

PNext ==
  \/ SchedulerTask
  \/ JobTask
  \/ MergeQueueTask
  \/ AdvanceIteration
  \/ Rerender

(***************************************************************************)
(* Specifications                                                          *)
(***************************************************************************)
QueueInit == mode = "queue" /\ config \in Configs /\ QInit /\ PInit

PipelineInit == mode = "pipeline" /\ config = DefaultConfig /\ QInit /\ PInit

QSpec == QueueInit /\ [][QNext]_vars

PSpec == PipelineInit /\ [][PNext]_vars

Init == QueueInit \/ PipelineInit

Next == QNext \/ PNext

Spec == Init /\ [][Next]_vars

(***************************************************************************)
(* Properties                                                              *)
(***************************************************************************)
\* position of ticket t in the sequence w (0 when absent)
IndexIn(w, t) ==
  IF \E i \in 1..Len(w) : w[i] = t THEN CHOOSE i \in 1..Len(w) : w[i] = t ELSE 0

\* an output row of the final stage of t's tier exists, written at iteration it or before
FinalStageRowBy(t, it) ==
  LET finalStage == getTierFinalStage(complexityTier(t)) IN
  \E r \in outputs :
    /\ r.table = JOB_TYPE_TO_OUTPUT_KEY(JobTypeOfStage(finalStage))
    /\ r.nodeId = NodeId(t, finalStage)
    /\ r.iteration <= it

\* the call lists ticket t in its queue snapshot
InSnapshot(c, t) == \E i \in 1..c.snapshotLen : config.queueOrder[i] = t

\* the call submits ticket t: as its own ticket or in its queue snapshot
Submits(c, t) == c.ticketId = t \/ InSnapshot(c, t)

\* the call submits ticket t as ready: in its snapshot, or as its own ready ticket
SubmitsReady(c, t) == InSnapshot(c, t) \/ (c.ticketId = t /\ c.readyForQueue)

\* what SuperRalph guarantees: every ticket it hands to the merge queue has an output
\* row of the final stage of its tier, and so has every ticket a merge_queue_result
\* row reports landed, at that row's iteration
HandedTicketsAreTierComplete ==
  mode = "pipeline" =>
    /\ \A t \in mergeQueueTickets(Ctx) : FinalStageRowBy(t, iteration)
    /\ \A i \in 1..Len(mergeRows) :
         \A t \in mergeRows[i].ticketsLanded : FinalStageRowBy(t, mergeRows[i].iteration)

\* C1: no ticket is landed unless it was ready when the merge queue selected it.
\* Every ticket SuperRalph hands to the merge queue is tier-complete; and in the
\* speculative coordinator, the entry about to be resolved as merged is pending and
\* ready for the queue, and when the window was selected its ticket had been submitted
\* as ready and not submitted since as not ready at a higher reportIteration.
C1_OnlyReadyTicketsLand ==
  /\ HandedTicketsAreTierComplete
  /\ (mode = "queue" /\ loop.pc \in {"land_read", "land_cleanup"}) =>
       LET t == loop.prefix[loop.i]
           subs == {id \in 1..round.selectedAt : Submits(calls[id], t)}
       IN /\ entries[t].status = "pending"
          /\ entries[t].readyForQueue
          /\ \E id \in subs :
               /\ SubmitsReady(calls[id], t)
               /\ \A o \in subs :
                    (o > id /\ calls[o].reportIteration > calls[id].reportIteration) =>
                      SubmitsReady(calls[o], t)

\* the step that ends a round whose window failed CI or the review at loop.target:
\* cleanupTicket of the failed entry returns and the entry is resolved
RoundFailureEnds ==
  /\ mode = "queue"
  /\ loop.pc = "evict_cleanup"
  /\ loop.ret = "top"
  /\ loop.reason \in {"ci_failed", "review_failed"}
  /\ loop' # loop

\* the step in which the followers of the failed entry are invalidated: the
\* synchronous stretch that ends by starting the eviction of the failed entry
FollowersInvalidated ==
  /\ mode = "queue"
  /\ loop.pc # "evict_context"
  /\ loop'.pc = "evict_context"
  /\ loop'.ret = "top"
  /\ loop'.reason \in {"ci_failed", "review_failed"}

\* what every failed round does, whatever fast-forward and push did: the failed entry
\* is evicted with the reason and the diagnostics, nothing from it on is landed, and
\* each follower's counter goes up by one while it stays pending
FailedRoundCommon ==
  /\ RoundFailureEnds =>
       LET k == IndexIn(loop.window, loop.target) IN
       /\ entries'[loop.target].status = "resolved"
       /\ entries'[loop.target].result # <<>>
       /\ entries'[loop.target].result[1].evicted
       /\ ~entries'[loop.target].result[1].merged
       /\ entries'[loop.target].result[1].evictionReason = loop.reason
       /\ entries'[loop.target].result[1].evictionDetails # "null"
       /\ \A j \in k..Len(loop.window) : loop.window[j] \notin round.landed
  /\ FollowersInvalidated =>
       LET k == IndexIn(loop'.window, loop'.target) IN
       \A j \in (k + 1)..Len(loop'.window) :
         /\ entries'[loop'.window[j]].invalidatedCount =
              entries[loop'.window[j]].invalidatedCount + 1
         /\ entries'[loop'.window[j]].status = "pending"

\* C2 as stated: in a window whose lowest failure is w_k, main is fast-forwarded
\* exactly to w_(k-1) (not advanced when k = 0), w_k is evicted with reason and
\* diagnostics, every follower's counter is incremented by one and it stays pending,
\* and no w_j with j >= k is landed in the round.
C2_MainAdvancesExactlyToPrefix ==
  [][/\ FailedRoundCommon
     /\ RoundFailureEnds =>
          mainLocal' = round.mainStart
                         \o SubSeq(loop.window, 1, IndexIn(loop.window, loop.target) - 1)]_vars

\* C2 amended: main is fast-forwarded to w_(k-1) and pushed when the fast-forward and
\* the push of the prefix succeed, and the prefix is then landed; when the fast-forward
\* fails main does not move and every entry of the prefix is evicted with
\* fast_forward_failed; when the push fails the local main stays at w_(k-1), nothing is
\* pushed and every entry of the prefix is evicted with push_failed.  The rest of the
\* claim holds in every case.
C2_FailedRound ==
  [][/\ FailedRoundCommon
     /\ RoundFailureEnds =>
          LET k == IndexIn(loop.window, loop.target)
              prefix == SubSeq(loop.window, 1, k - 1)
              evictedAs(reason) ==
                \A i \in 1..Len(prefix) :
                  /\ <<prefix[i], reason>> \in round.evicted
                  /\ prefix[i] \notin round.landed
          IN /\ k = 1 => (mainLocal' = round.mainStart /\ round.landed = {})
             /\ (k > 1 /\ round.ff = "ok" /\ round.push = "ok") =>
                  /\ mainLocal' = round.mainStart \o prefix
                  /\ mainRemote' = mainLocal'
                  /\ \A i \in 1..Len(prefix) : prefix[i] \in round.landed
             /\ (k > 1 /\ round.ff = "failed") =>
                  /\ mainLocal' = round.mainStart
                  /\ evictedAs("fast_forward_failed")
             /\ (k > 1 /\ round.push = "failed") =>
                  /\ mainLocal' = round.mainStart \o prefix
                  /\ mainRemote' # mainLocal'
                  /\ evictedAs("push_failed")
             /\ k > 1 => round.ff \in {"ok", "failed"}]_vars

\* C2 witness: a window of three failed CI at its second entry; the first entry was
\* landed, the third was invalidated, and the failed entry is about to be resolved.
C2_Witness ==
  /\ mode = "queue"
  /\ loop.pc = "evict_cleanup"
  /\ loop.ret = "top"
  /\ loop.reason = "ci_failed"
  /\ Len(loop.window) = 3
  /\ loop.target = loop.window[2]
  /\ round.landed = {loop.window[1]}
  /\ round.bumped = {loop.window[3]}
  /\ entries[loop.window[3]].invalidatedCount = 1

\* C3: no ticket is reported merged unless CI was run for it in the same round and
\* passed, and the review agent did not reject it, before main was fast-forwarded:
\* once main has been moved to the prefix, and for every ticket the round has resolved
\* as merged, the round's CI verdicts exist and are passes.
C3_MergedOnlyAfterCiPassed ==
  mode = "queue" =>
    /\ loop.pc \in {"push", "land_read", "land_cleanup"} =>
         /\ round.ci # <<>>
         /\ \A i \in 1..Len(loop.prefix) :
              /\ round.ci[i]
              /\ round.review # <<>> => round.review[i]
    /\ \A t \in round.landed :
         round.ci # <<>> /\ round.ci[IndexIn(loop.window, t)]

\* C4: every enqueue call made with readyForQueue = true receives exactly one outcome:
\* no call is resolved twice, and a call that still awaits its outcome is registered
\* among the waiters of its ticket's entry, the only place a result is published to.
C4_EveryReadyCallGetsOneOutcome ==
  mode = "queue" =>
    \A id \in 1..Len(calls) :
      /\ calls[id].outcomes <= 1
      /\ calls[id].state = "returned" => calls[id].outcomes = 1
      /\ calls[id].state = "awaiting" =>
           \E i \in 1..Len(entries[calls[id].ticketId].waiters) :
             entries[calls[id].ticketId].waiters[i] = id

\* the step is an enqueue call; NewCall is that call as the step leaves it
IsEnqueue == mode = "queue" /\ Len(calls') = Len(calls) + 1

NewCall == calls'[Len(calls')]

\* the status part of C5: pending only becomes resolved (with a result), and resolved
\* becomes pending only in an enqueue that submits the ticket with a reportIteration
\* strictly above the one the entry was resolved at
StatusMoves(t) ==
  /\ (entries[t].status = "pending" /\ entries'[t].status # "pending") =>
       (entries'[t].status = "resolved" /\ entries'[t].result # <<>>)
  /\ entries[t].status # "absent" => entries'[t].status # "absent"
  /\ (entries[t].status = "resolved" /\ entries'[t].status = "pending") =>
       /\ IsEnqueue
       /\ Submits(NewCall, t)
       /\ NewCall.reportIteration > entries[t].resolvedIteration

\* the call got the result stored in the entry, and nothing was processed for it
ReturnsStored(t) ==
  /\ NewCall.state = "returned"
  /\ NewCall.result = entries[t].result
  /\ entries'[t].status = "resolved"
  /\ entries'[t].result = entries[t].result
  /\ loop' = loop
  /\ processing' = processing
  /\ mainLocal' = mainLocal
  /\ mainRemote' = mainRemote

\* C5: an entry's status moves only pending -> resolved, and resolved -> pending only
\* when the ticket is re-submitted with a reportIteration strictly higher than the one
\* it was resolved at; submitting (ready for the queue) an already-resolved ticket at
\* the same or a lower reportIteration returns the stored result and triggers no
\* rebase, CI, fast-forward, push or cleanup.
C5_ResolvedReopensOnlyOnHigherIteration ==
  [][\A t \in QTickets :
       /\ StatusMoves(t)
       /\ (/\ IsEnqueue
           /\ NewCall.ticketId = t
           /\ NewCall.readyForQueue
           /\ entries[t].status = "resolved"
           /\ NewCall.reportIteration <= entries[t].resolvedIteration) => ReturnsStored(t)]_vars

\* C6: at most one processing loop is active per coordinator, and while one is active
\* the coordinator records it.
C6_OneProcessingLoop ==
  mode = "queue" => (activeLoops <= 1 /\ (activeLoops = 1 => processing))

\* C6 witness: two enqueue calls are awaiting while one loop runs.
C6_Witness ==
  /\ mode = "queue"
  /\ activeLoops = 1
  /\ Len(calls) = 2
  /\ calls[1].state = "awaiting" /\ calls[2].state = "awaiting"
  /\ calls[1].ticketId # calls[2].ticketId
  /\ loop.pc \notin {"idle", "returned"}

\* no two active jobs are jobs of the same ticket
OneJobPerTicket ==
  \A i, j \in 1..Len(scheduledTasks) :
    (i # j /\ scheduledTasks[i].ticketId # "-") =>
      scheduledTasks[i].ticketId # scheduledTasks[j].ticketId

FurthestStageIndex(t) ==
  LET stages == getTierStages(complexityTier(t))
      done == {i \in 1..Len(stages) :
                 latest(Ctx, JOB_TYPE_TO_OUTPUT_KEY(JobTypeOfStage(stages[i])),
                        NodeId(t, stages[i]))}
  IN IF done = {} THEN 0 ELSE CHOOSE i \in done : \A j \in done : j <= i

\* C8: every active ticket-stage job is the next stage of its ticket's tier after the
\* furthest stage that has produced output: none outside the tier, none skipped, none
\* for a tier-complete ticket.  Stated for the runs in which every scheduler output
\* followed the rules of its prompt.
C8_ActiveJobIsNextStage ==
  (mode = "pipeline" /\ obeyed) =>
    \A k \in 1..Len(scheduledTasks) :
      scheduledTasks[k].ticketId # "-" =>
        LET t == scheduledTasks[k].ticketId
            stages == getTierStages(complexityTier(t))
            f == FurthestStageIndex(t)
        IN /\ f < Len(stages)
           /\ StageOfJobType(scheduledTasks[k].jobType) = stages[f + 1]

\* C9: no two active jobs share a job id, and a step never changes the row of a job
\* id that stays active: inserting a job whose id is active leaves the existing row,
\* with its agent and its creation time, as it was.
C9_JobIdsUniqueRowsKept ==
  [][mode = "pipeline" =>
       /\ \A i, j \in 1..Len(scheduledTasks') :
            i # j => scheduledTasks'[i].jobId # scheduledTasks'[j].jobId
       /\ \A i \in 1..Len(scheduledTasks), j \in 1..Len(scheduledTasks') :
            scheduledTasks[i].jobId = scheduledTasks'[j].jobId =>
              scheduledTasks[i] = scheduledTasks'[j]]_vars

\* C9 witness: the latest scheduler output names an active job's id with another
\* agent, and the active row has kept its agent and its earlier creation time.
C9_Witness ==
  /\ mode = "pipeline"
  /\ \E k \in 1..Len(scheduledTasks), i \in 1..Len(latestSchedule(Ctx)) :
       /\ latestSchedule(Ctx)[i].jobId = scheduledTasks[k].jobId
       /\ latestSchedule(Ctx)[i].agentId # scheduledTasks[k].agentId
       /\ scheduledTasks[k].createdAtMs < clock

\* C10: reap-and-reconcile is idempotent: with the output store and the latest
\* scheduler output as they are, another reap and reconcile leaves the active jobs
\* (and their rows) as the last frame left them.
C10_FrameIsIdempotent ==
  mode = "pipeline" => frame(Ctx, scheduledTasks, clock + 1) = scheduledTasks

\* C10 witness: the latest scheduler output names a job that is complete, which the
\* frame has reaped and not inserted again, and a job that is active.
C10_Witness ==
  /\ mode = "pipeline"
  /\ \E i, j \in 1..Len(latestSchedule(Ctx)) :
       /\ isJobComplete(Ctx, latestSchedule(Ctx)[i])
       /\ \A k \in 1..Len(scheduledTasks) :
            scheduledTasks[k].jobId # latestSchedule(Ctx)[i].jobId
       /\ \E k \in 1..Len(scheduledTasks) :
            scheduledTasks[k].jobId = latestSchedule(Ctx)[j].jobId

\* the job types the scheduler may schedule again in a later loop iteration
RepeatingJobTypes == {"discovery", "progress-update"}

\* the completion output of the job is present: a row of the current iteration for a
\* repeating job, a row of any iteration for a one-shot ticket stage
OutputPresent(job) ==
  IF job.jobType \in RepeatingJobTypes
  THEN outputMaybe(Ctx, JOB_TYPE_TO_OUTPUT_KEY(job.jobType), job.jobId)
  ELSE latest(Ctx, JOB_TYPE_TO_OUTPUT_KEY(job.jobType), job.jobId)

\* C11: after the reap, reconcile and read of a frame, no active job has its
\* completion output present: none was inserted with its output in the store, and
\* every one whose output has appeared was reaped.
C11_NoActiveJobHasOutput ==
  mode = "pipeline" =>
    \A k \in 1..Len(scheduledTasks) : ~OutputPresent(scheduledTasks[k])

\* C12: for a one-shot ticket-stage job the completion check is cross-iteration: once
\* an output row exists for the job's node id in any iteration, no later frame has
\* the job active, so it is never inserted again from the latest scheduler output.
C12_OneShotJobNeverReinserted ==
  [][mode = "pipeline" =>
       \A k \in 1..Len(scheduledTasks') :
         scheduledTasks'[k].jobType \notin RepeatingJobTypes =>
           ~latest(Ctx, JOB_TYPE_TO_OUTPUT_KEY(scheduledTasks'[k].jobType),
                   scheduledTasks'[k].jobId)]_vars

SchedulerRunnable == Len(scheduledTasks) < maxConcurrency /\ ~schedulerRan(Ctx)

JobRunnable == scheduledTasks # <<>>

MergeQueueRunnable == mergeQueueTickets(Ctx) # {} /\ ~mergeQueueRan(Ctx)

\* <Ralph until={false} maxIterations={Infinity}>: every rendered child is terminal
LoopAdvances ==
  /\ scheduledTasks = <<>>
  /\ schedulerRan(Ctx)
  /\ mergeQueueTickets(Ctx) = {} \/ mergeQueueRan(Ctx)

\* a frame with no runnable task, no loop advance and no active job
EngineStops ==
  /\ ~SchedulerRunnable
  /\ ~JobRunnable
  /\ ~MergeQueueRunnable
  /\ ~LoopAdvances

\* every discovered ticket is landed, no job is active, the scheduler of the current
\* iteration has named no job and the merge queue is handed no ticket
AllLandedQuiet ==
  /\ mode = "pipeline"
  /\ selectDiscoverTickets(Ctx) # {}
  /\ unfinishedTickets(Ctx) = {}
  /\ scheduledTasks = <<>>
  /\ schedulerRan(Ctx)
  /\ latestSchedule(Ctx) = <<>>
  /\ mergeQueueTickets(Ctx) = {}

\* C14: the run terminates: once every ticket is landed, no job is active, the
\* scheduler has produced no new job and the merge queue has no ready ticket, the
\* frame has no runnable task, no loop advance and no active job, so that the engine
\* stops in the following frame.
C14_QuietFrameStops == AllLandedQuiet => EngineStops

\* in every frame of the workflow a task is runnable or the loop advances
SomethingAlwaysRuns == mode = "pipeline" => ~EngineStops

(***************************************************************************)
(* Eviction and landing state                                              *)
(***************************************************************************)
\* the merge queue evicted t in iteration it and has landed it in no iteration
EvictedAt(t, it) ==
  /\ \E i \in 1..Len(mergeRows) :
       mergeRows[i].iteration = it /\ t \in mergeRows[i].ticketsEvicted
  /\ \A i \in 1..Len(mergeRows) : t \notin mergeRows[i].ticketsLanded

\* the final stage of t's tier has written an output row after iteration it
FinalStageRowAfter(t, it) ==
  LET finalStage == getTierFinalStage(complexityTier(t)) IN
  \E r \in outputs :
    /\ r.table = JOB_TYPE_TO_OUTPUT_KEY(JobTypeOfStage(finalStage))
    /\ r.nodeId = NodeId(t, finalStage)
    /\ r.iteration > it

\* C15: an evicted ticket is not stuck: once the final stage of its tier has produced
\* output again in an iteration after the eviction, the ticket is tier-complete
\* again and is handed to the merge queue again.
C15_EvictedTicketReenters ==
  mode = "pipeline" =>
    \A t \in PTickets : \A it \in 0..iteration :
      (EvictedAt(t, it) /\ FinalStageRowAfter(t, it)) =>
        t \in mergeQueueTickets(Ctx)

(***************************************************************************)
(* The selectors and helpers applied to a store.  The store holds one      *)
(* merge_queue_result row for each of the first iterations and, for one    *)
(* ticket, the rows the first stages of a tier have written in the current *)
(* iteration.                                                              *)
(***************************************************************************)
Tiers == {"trivial", "small", "medium", "large"}

\* what one run of the merge queue reports for the tickets
RowChoices ==
  {[ticketsLanded |-> l, ticketsEvicted |-> e] :
     l \in SUBSET PTickets, e \in SUBSET PTickets} \ 
  {c \in [ticketsLanded : SUBSET PTickets, ticketsEvicted : SUBSET PTickets] :
     c.ticketsLanded \cap c.ticketsEvicted # {}}

MergeRowSeqs(n) ==
  {[i \in 1..n |-> [iteration |-> i, ticketsLanded |-> f[i].ticketsLanded,
                    ticketsEvicted |-> f[i].ticketsEvicted]] :
     f \in [1..n -> RowChoices]}

\* the rows the first k stages of the tier have written for the ticket in iteration it
StageRows(ticketId, tier, k, it) ==
  {[table |-> JOB_TYPE_TO_OUTPUT_KEY(JobTypeOfStage(getTierStages(tier)[j])),
    nodeId |-> NodeId(ticketId, getTierStages(tier)[j]),
    iteration |-> it, tickets |-> {}] : j \in 1..k}

SelectorInit ==
  /\ mode = "selector"
  /\ config = DefaultConfig
  /\ QInit
  /\ iteration = MaxIteration
  /\ outputs \in UNION {{StageRows("T1", tier, k, it) :
                            k \in 0..Len(getTierStages(tier)), it \in 0..MaxIteration} :
                          tier \in Tiers}
  /\ schedules = {}
  /\ mergeRows \in UNION {MergeRowSeqs(n) : n \in 0..MaxIteration}
  /\ scheduledTasks = <<>>
  /\ clock = 0
  /\ obeyed = TRUE
  /\ applied = NoResult
  /\ attempts = {}
  /\ dashboard = "idle"
  /\ agents = <<>>

\* selectLand and selectCompletedTicketIds read the store for a ticket
ApplySelectLand ==
  /\ mode = "selector"
  /\ \E t \in PTickets :
       applied' = [fn |-> "selectLand", ticketId |-> t,
                  value |-> selectLand(Ctx, t),
                  completed |-> t \in selectCompletedTicketIds(Ctx, PTickets)]
  /\ UNCHANGED <<mode, iteration, outputs, schedules, mergeRows, scheduledTasks, clock,
                 obeyed>>
  /\ UNCHANGED attempts
  /\ UNCHANGED <<dashboard, agents>>
  /\ UNCHANGED qvars

\* the tier's first k stages are exactly the stages that have written a row
RanFirstStages(tier, k) ==
  /\ k <= Len(getTierStages(tier))
  /\ outputs = StageRows("T1", tier, k, iteration)

\* formatTicketTable: the "Next Stages" cell of a ticket of the tier
ApplyGetNextStagesForTier ==
  /\ mode = "selector"
  /\ \E tier \in Tiers :
       /\ \E k \in 0..Len(getTierStages(tier)) : RanFirstStages(tier, k)
       /\ applied' = [fn |-> "getNextStagesForTier", tier |-> tier,
                     pipelineStage |-> computePipelineStage(Ctx, "T1"),
                     value |-> getNextStagesForTier(tier, computePipelineStage(Ctx, "T1"))]
  /\ UNCHANGED <<mode, iteration, outputs, schedules, mergeRows, scheduledTasks, clock,
                 obeyed>>
  /\ UNCHANGED attempts
  /\ UNCHANGED <<dashboard, agents>>
  /\ UNCHANGED qvars

\* ticketStates: the tier-completion of a ticket of the tier
ApplyIsTicketTierComplete ==
  /\ mode = "selector"
  /\ \E tier \in Tiers :
       applied' = [fn |-> "isTicketTierComplete", tier |-> tier,
                   value |-> isTicketTierComplete(Ctx, "T1", tier)]
  /\ UNCHANGED <<mode, iteration, outputs, schedules, mergeRows, scheduledTasks, clock,
                 obeyed>>
  /\ UNCHANGED attempts
  /\ UNCHANGED <<dashboard, agents>>
  /\ UNCHANGED qvars

SelectorNext ==
  \/ ApplySelectLand
  \/ ApplyGetNextStagesForTier
  \/ ApplyIsTicketTierComplete

SelectorSpec == SelectorInit /\ [][SelectorNext]_vars

\* the rows that name the ticket, by index
RowsNaming(t) ==
  {i \in 1..Len(mergeRows) :
     t \in mergeRows[i].ticketsLanded \cup mergeRows[i].ticketsEvicted}

\* the landing state the row of the highest iteration that names the ticket gives
LatestLandingState(t) ==
  IF RowsNaming(t) = {} THEN "none"
  ELSE LET i == CHOOSE i \in RowsNaming(t) :
                  \A j \in RowsNaming(t) : mergeRows[j].iteration <= mergeRows[i].iteration
       IN IF t \in mergeRows[i].ticketsLanded THEN "merged" ELSE "evicted"

\* C16: the landing state of a ticket is that of the latest merge_queue_result row
\* naming it (no ticket has a land row): a ticket evicted earlier and landed later
\* is reported landed, and the ticket is completed iff that latest state is landed.
C16_LandingStateIsLatestRow ==
  (mode = "selector" /\ applied.fn = "selectLand") =>
    /\ applied.value = LatestLandingState(applied.ticketId)
    /\ applied.completed <=> (LatestLandingState(applied.ticketId) = "merged")

\* the tier's name of the stage computePipelineStage reports: the suffix of its node id
StageSuffixOf(stage) ==
  LET i == CHOOSE i \in 1..Len(PIPELINE_STAGES_REVERSE) :
             PIPELINE_STAGES_REVERSE[i].stage = stage
  IN PIPELINE_STAGES_REVERSE[i].suffix

\* C20: for every tier and current stage the computed next stage is the first stage
\* of the tier after the current one: the tier's first stage when no stage has run,
\* the following stage otherwise, and "(done)" only when the current stage is the
\* tier's final stage.
C20_NextStageFollowsCurrent ==
  (mode = "selector" /\ applied.fn = "getNextStagesForTier") =>
    LET stages == getTierStages(applied.tier) IN
    IF applied.pipelineStage = "not_started" THEN applied.value = <<stages[1]>>
    ELSE LET k == indexOf(stages, StageSuffixOf(applied.pipelineStage)) IN
         k > 0 =>
           IF k = Len(stages) THEN applied.value = <<>>
           ELSE applied.value # <<>> /\ applied.value[1] = stages[k + 1]

(***************************************************************************)
(* Push failures, rebase failures and the order of the window              *)
(***************************************************************************)
\* the number of pushMain calls landPrefix makes before it gives the push up
PushAttemptsBeforeEviction == 3

\* C17: a failed push is retried after a re-fetch, up to three times: when an entry
\* is evicted with push_failed the round has called pushMain three times, each of
\* which failed.
C17_PushRetriedThreeTimes ==
  mode = "queue" =>
    \A e \in round.evicted :
      e[2] = "push_failed" => round.pushes = PushAttemptsBeforeEviction

\* the step that ends a round whose rebase failed at loop.target: cleanupTicket of the
\* failed entry returns, the entry is resolved and processLoop continues
RebaseFailureEnds ==
  /\ mode = "queue"
  /\ loop.pc = "evict_cleanup"
  /\ loop.reason = "rebase_conflict"
  /\ loop' # loop

\* the window entries other than the one whose rebase failed
OtherWindowEntries == {loop.window[j] : j \in 1..Len(loop.window)} \ {loop.target}

\* what the round of a failed rebase has done when it ends: the entries before the
\* failed one were rebased, the failed one is evicted with rebase_conflict, main has
\* not moved, no review, CI, fast-forward or push has run, nothing else is resolved
RebaseFailureOutcome ==
  /\ IndexIn(loop.window, loop.target) = Len(round.rebased) + 1
  /\ entries'[loop.target].status = "resolved"
  /\ entries'[loop.target].result # <<>>
  /\ entries'[loop.target].result[1].evicted
  /\ ~entries'[loop.target].result[1].merged
  /\ entries'[loop.target].result[1].evictionReason = "rebase_conflict"
  /\ mainLocal' = round.mainStart
  /\ mainRemote' = mainRemote
  /\ round.review = <<>> /\ round.ci = <<>>
  /\ round.ff = "none" /\ round.push = "none"
  /\ round.landed = {} /\ round.evicted = {} /\ round.bumped = {}
  /\ \A t \in OtherWindowEntries :
       /\ entries'[t].status = "pending"
       /\ entries'[t].invalidatedCount = entries[t].invalidatedCount

WindowTaken ==
  /\ mode = "queue"
  /\ coord'.orderingStrategy = "priority"
  /\ loop.pc # "fetch"
  /\ loop'.pc = "fetch"

RankOf(t) == priorityRank(PriorityOf(t))

\* C19 as stated: under the priority policy the pending ready entries are taken in
\* the order critical > high > medium > low, and entries of equal priority in the
\* order of their enqueue sequence, the earlier enqueued first.
C19_PriorityThenEnqueueSeq ==
  [][WindowTaken =>
       \A i, j \in 1..Len(loop'.window) :
         i < j =>
           LET a == loop'.window[i]
               b == loop'.window[j]
           IN \/ RankOf(a) < RankOf(b)
              \/ /\ RankOf(a) = RankOf(b)
                 /\ entries'[a].enqueueSeq < entries'[b].enqueueSeq]_vars

\* C19, corrected: under the priority policy the pending ready entries are taken in
\* the order critical > high > medium > low; entries of equal priority are ordered by
\* report iteration, the lower first, and only entries of equal priority and equal
\* report iteration by enqueue sequence, the earlier enqueued first.
C19_PriorityThenIterationThenSeq ==
  [][WindowTaken =>
       \A i, j \in 1..Len(loop'.window) :
         i < j =>
           LET a == loop'.window[i]
               b == loop'.window[j]
           IN \/ RankOf(a) < RankOf(b)
              \/ /\ RankOf(a) = RankOf(b)
                 /\ entries'[a].reportIteration < entries'[b].reportIteration
              \/ /\ RankOf(a) = RankOf(b)
                 /\ entries'[a].reportIteration = entries'[b].reportIteration
                 /\ entries'[a].enqueueSeq < entries'[b].enqueueSeq]_vars

\* C19 witness: under the priority policy a round has just taken a window with two
\* entries of equal priority, of which the one enqueued later has the lower report
\* iteration and comes first.
C19_Witness ==
  /\ mode = "queue"
  /\ coord.orderingStrategy = "priority"
  /\ loop.pc = "fetch"
  /\ round.selectedAt = Len(calls)
  /\ \E i, j \in 1..Len(loop.window) :
       /\ i < j
       /\ RankOf(loop.window[i]) = RankOf(loop.window[j])
       /\ entries[loop.window[i]].reportIteration < entries[loop.window[j]].reportIteration
       /\ entries[loop.window[i]].enqueueSeq > entries[loop.window[j]].enqueueSeq

(***************************************************************************)
(* Tier completion                                                         *)
(***************************************************************************)
\* the final stage of each tier and the table its rows are written to
FinalStageOfTier(tier) ==
  CASE tier \in {"trivial", "small"} -> [stage |-> "build-verify", table |-> "build_verify"]
    [] tier = "medium" -> [stage |-> "code-review", table |-> "code_review"]
    [] OTHER -> [stage |-> "report", table |-> "report"]

\* C21: isTicketTierComplete(ticket, tier) is true iff an output row of any iteration
\* exists for the table of the tier's final stage (build-verify for trivial and
\* small, code-review for medium, report for large) under the node id
\* "{ticketId}:{finalStage}", whatever rows the other stages have written.
C21_TierCompleteIffFinalStageRow ==
  (mode = "selector" /\ applied.fn = "isTicketTierComplete") =>
    (applied.value <=>
       \E r \in outputs :
         /\ r.table = FinalStageOfTier(applied.tier).table
         /\ r.nodeId = NodeId("T1", FinalStageOfTier(applied.tier).stage))

\* C21 witness: the ticket is found tier-complete for tier small from a build-verify
\* row of an earlier iteration, while the intermediate stage test has written no row.
C21_Witness ==
  /\ mode = "selector"
  /\ applied.fn = "isTicketTierComplete"
  /\ applied.tier = "small"
  /\ applied.value
  /\ \A r \in outputs : r.iteration < iteration /\ r.table # "test_results"

(***************************************************************************)
(* selectDiscoverTickets on the discover rows.  Each of the first          *)
(* iterations has at most one row of node "discovery"; its tickets are the *)
(* raw objects the discovery agent wrote.                                  *)
(***************************************************************************)
\* raw tickets of a discover row: an id with or without surrounding blanks or empty,
\* and a complexityTier that is a tier name or something else
RawTickets ==
  { [id |-> "T1", complexityTier |-> "trivial"],
    [id |-> "T1", complexityTier |-> "large"],
    [id |-> " T1", complexityTier |-> "epic"],
    [id |-> "T2", complexityTier |-> "small"],
    [id |-> "", complexityTier |-> "trivial"] }

\* the number of tickets in a discover row of the model
MaxRowTickets == 2

RawTicketSeqs == UNION {[1..n -> RawTickets] : n \in 0..MaxRowTickets}

\* source.id.trim()
trim(id) == IF id = " T1" THEN "T1" ELSE id

normalizeComplexityTier(value) == IF value \in Tiers THEN value ELSE "medium"

\* normalizeTicket: <<>> for null
normalizeTicket(raw) ==
  IF trim(raw.id) = "" THEN <<>>
  ELSE <<[id |-> trim(raw.id),
          complexityTier |-> normalizeComplexityTier(raw.complexityTier)]>>

\* the rows sorted by iteration, highest first
RECURSIVE sortByIteration_Descending(_)
sortByIteration_Descending(rows) ==
  IF rows = {} THEN <<>>
  ELSE LET r == CHOOSE r \in rows : \A q \in rows : q.iteration <= r.iteration
       IN <<r>> \o sortByIteration_Descending(rows \ {r})

\* .sort((a, b) => a.iteration - b.iteration)
RECURSIVE sortByIteration(_)
sortByIteration(rows) ==
  IF rows = {} THEN <<>>
  ELSE LET r == CHOOSE r \in rows : \A q \in rows : r.iteration <= q.iteration
       IN <<r>> \o sortByIteration(rows \ {r})

\* ticketMap.set(ticket.id, ticket) for the candidates of one row, in order
RECURSIVE setTickets(_, _)
setTickets(ticketMap, candidates) ==
  IF candidates = <<>> THEN ticketMap
  ELSE LET ticket == normalizeTicket(Head(candidates))
           next == IF ticket = <<>> THEN ticketMap
                   ELSE [id \in DOMAIN ticketMap \cup {ticket[1].id} |->
                           IF id = ticket[1].id THEN ticket[1] ELSE ticketMap[id]]
       IN setTickets(next, Tail(candidates))

RECURSIVE setRows(_, _)
setRows(ticketMap, allRows) ==
  IF allRows = <<>> THEN ticketMap
  ELSE setRows(setTickets(ticketMap, Head(allRows).tickets), Tail(allRows))

\* selectDiscoverTickets with the tickets' fields: the ticket map, id -> ticket
selectDiscoverTicketMap(ctx) ==
  setRows(<<>>, sortByIteration({r \in ctx.outputs :
                                   r.table = "discover" /\ r.nodeId = NodeId("-", "discovery")}))

DiscoverRowSets ==
  {{[table |-> "discover", nodeId |-> NodeId("-", "discovery"), iteration |-> i,
     tickets |-> f[i]] : i \in its} :
     its \in SUBSET (1..MaxIteration), f \in [1..MaxIteration -> RawTicketSeqs]}

DiscoverInit ==
  /\ mode = "discover"
  /\ config = DefaultConfig
  /\ QInit
  /\ iteration = MaxIteration
  /\ outputs \in DiscoverRowSets
  /\ schedules = {}
  /\ mergeRows = <<>>
  /\ scheduledTasks = <<>>
  /\ clock = 0
  /\ obeyed = TRUE
  /\ applied = NoResult
  /\ attempts = {}
  /\ dashboard = "idle"
  /\ agents = <<>>

\* selectAllTickets reads the tickets of the store
ApplySelectDiscoverTickets ==
  /\ mode = "discover"
  /\ applied' = [fn |-> "selectDiscoverTickets", value |-> selectDiscoverTicketMap(Ctx)]
  /\ UNCHANGED <<mode, iteration, outputs, schedules, mergeRows, scheduledTasks, clock,
                 obeyed>>
  /\ UNCHANGED attempts
  /\ UNCHANGED <<dashboard, agents>>
  /\ UNCHANGED qvars

DiscoverNext == ApplySelectDiscoverTickets

DiscoverSpec == DiscoverInit /\ [][DiscoverNext]_vars

\* the discover rows whose tickets mention the id
RowsMentioning(id) ==
  {r \in outputs : r.table = "discover" /\
     \E k \in 1..Len(r.tickets) : trim(r.tickets[k].id) = id}

\* the tickets the row gives for the id, normalized
VersionsIn(r, id) ==
  {normalizeTicket(r.tickets[k])[1] :
     k \in {k \in 1..Len(r.tickets) : trim(r.tickets[k].id) = id}}

\* C22: the ticket set is built from the discovery rows of all iterations in
\* ascending iteration order, a later row's ticket replacing an earlier one of the
\* same id: the result has exactly one ticket for each distinct id the rows mention,
\* equal to the version of the row of the highest iteration that mentions it.
C22_OneTicketPerIdFromHighestIteration ==
  (mode = "discover" /\ applied.fn = "selectDiscoverTickets") =>
    /\ DOMAIN applied.value = {id \in {"T1", "T2"} : RowsMentioning(id) # {}}
    /\ \A id \in DOMAIN applied.value :
         LET r == CHOOSE r \in RowsMentioning(id) :
                    \A q \in RowsMentioning(id) : q.iteration <= r.iteration
         IN /\ applied.value[id].id = id
            /\ applied.value[id] \in VersionsIn(r, id)

\* C22 witness: two rows mention T1 with different tiers, a row mentions T2, and the
\* result holds T1 and T2.
C22_Witness ==
  /\ mode = "discover"
  /\ applied.fn = "selectDiscoverTickets"
  /\ DOMAIN applied.value = {"T1", "T2"}
  /\ \E r, q \in RowsMentioning("T1") :
       /\ r.iteration < q.iteration
       /\ VersionsIn(r, "T1") \cap VersionsIn(q, "T1") = {}

\* C23: a ticket's complexity tier is fixed when its id is first discovered: the tier
\* of the ticket that tier-completion and scheduling use is the tier the row of the
\* lowest iteration mentioning the id gave it, whatever later rows say.
C23_TierFixedAtFirstDiscovery ==
  (mode = "discover" /\ applied.fn = "selectDiscoverTickets") =>
    \A id \in DOMAIN applied.value :
      LET first == CHOOSE r \in RowsMentioning(id) :
                     \A q \in RowsMentioning(id) : r.iteration <= q.iteration
      IN applied.value[id].complexityTier \in
           {v.complexityTier : v \in VersionsIn(first, id)}

(***************************************************************************)
(* Workspaces: the <Worktree> of a job and the worktreePath of the merge   *)
(* queue's ticket table                                                    *)
(***************************************************************************)
\* every ticket bound to the one path of the prefix
worktreePath_Shared(id) == "/tmp/workflow-wt-"

\* path={`/tmp/workflow-wt-${id}`}
worktreePath(id) == "/tmp/workflow-wt-" \o id

\* wrapWorktree(id, child): id is the ticket id of a per-ticket job, the job id of a
\* global job
wrapWorktree(job) ==
  worktreePath(IF job.ticketId = "-" THEN job.jobId[2] ELSE job.ticketId)

\* worktreePath: `/tmp/workflow-wt-${t.ticket.id}` of a merge-queue ticket
mergeQueueWorktreePath(ticketId) == "/tmp/workflow-wt-" \o ticketId

readyTickets(ctx) ==
  {t \in mergeQueueTickets(ctx) :
     ticketStates(ctx)[t].tierComplete /\ ~ticketStates(ctx)[t].landed}

\* if (readyTickets.length === 0) return null; else the <Task id="agentic-merge-queue">
AgenticMergeQueueRendered(ctx) == readyTickets(ctx) # {}

\* C25: the merge-queue task is rendered in a frame iff at least one unfinished
\* ticket is tier-complete (a row of its tier's final stage exists) and not landed.
C25_MergeQueueRenderedIffReadyTicket ==
  mode = "pipeline" =>
    (AgenticMergeQueueRendered(Ctx) <=>
       \E t \in unfinishedTickets(Ctx) :
         /\ isTicketTierComplete(Ctx, t, complexityTier(t))
         /\ selectLand(Ctx, t) # "merged")

\* C26: the scheduler task runs only in a frame whose active jobs, after reap and
\* reconcile, number less than maxConcurrency; the free-slot count it is given equals
\* maxConcurrency minus the active count and is at least 1; the count is negative in
\* no frame.
C26_SchedulerOnlyWithFreeSlot ==
  [][/\ freeSlots(scheduledTasks) >= 0
     /\ SchedulerTask =>
          /\ Len(scheduledTasks) < maxConcurrency
          /\ freeSlots(scheduledTasks) = maxConcurrency - Len(scheduledTasks)
          /\ freeSlots(scheduledTasks) >= 1]_vars

\* C26 witness: the scheduler has run in an iteration whose frame now holds more
\* active jobs than maxConcurrency, so that a scheduler asked again would be given a
\* negative difference.
C26_Witness ==
  /\ mode = "pipeline"
  /\ schedulerRan(Ctx)
  /\ Len(scheduledTasks) > maxConcurrency

(***************************************************************************)
(* The output store: rows keyed by (table, node id, iteration), written by *)
(* the persist step of a task attempt                                      *)
(***************************************************************************)
\* the tasks writing to the store of the model, and what an attempt may report
StoreTasks ==
  {[table |-> "discover", nodeId |-> NodeId("-", "discovery")],
   [table |-> "build_verify", nodeId |-> NodeId("T1", "build-verify")]}

PayloadsOf(table) == IF table = "discover" THEN SUBSET PTickets ELSE {{}}

StoreInit ==
  /\ mode = "store"
  /\ config = DefaultConfig
  /\ QInit
  /\ PInit

\* an attempt of a task of the current iteration persists its output
PersistOutput ==
  /\ mode = "store"
  /\ \E task \in StoreTasks :
       \E payload \in PayloadsOf(task.table) :
         LET row == [table |-> task.table, nodeId |-> task.nodeId,
                     iteration |-> iteration, tickets |-> payload]
         IN /\ outputs' = upsertOutput(outputs, row)
            /\ applied' = [fn |-> "upsertOutput", row |-> row, before |-> outputs]
  /\ UNCHANGED <<mode, iteration, schedules, mergeRows, scheduledTasks, clock, obeyed>>
  /\ UNCHANGED attempts
  /\ UNCHANGED <<dashboard, agents>>
  /\ UNCHANGED qvars

\* the loop moves to its next iteration; later writes carry the new iteration
StoreAdvance ==
  /\ mode = "store"
  /\ iteration < MaxIteration
  /\ iteration' = iteration + 1
  /\ UNCHANGED <<mode, outputs, schedules, mergeRows, scheduledTasks, clock, obeyed,
                 applied>>
  /\ UNCHANGED attempts
  /\ UNCHANGED <<dashboard, agents>>
  /\ UNCHANGED qvars

StoreNext == PersistOutput \/ StoreAdvance

StoreSpec == StoreInit /\ [][StoreNext]_vars

\* C27: the output store holds at most one row per (schema, node id, iteration); a
\* write to a key that has a row leaves the written row as the only row of the key;
\* no step removes the row of a key.
C27_OneRowPerKey ==
  [][mode = "store" =>
       /\ \A r, q \in outputs' : rowKey(r) = rowKey(q) => r = q
       /\ {rowKey(r) : r \in outputs} \subseteq {rowKey(r) : r \in outputs'}
       /\ applied'.fn = "upsertOutput" => applied'.row \in outputs']_vars

\* C27 witness: a second attempt wrote the key of a row with another payload; the
\* earlier row is gone, the rows of other keys are kept.
C27_Witness ==
  /\ mode = "store"
  /\ applied.fn = "upsertOutput"
  /\ \E r \in applied.before :
       /\ rowKey(r) = rowKey(applied.row)
       /\ r # applied.row
       /\ r \notin outputs
  /\ Cardinality(outputs) >= 3

(***************************************************************************)
(* ctx.outputMaybe and ctx.latest as row lookups                           *)
(***************************************************************************)
\* undefined
NoRow == [table |-> "undefined"]

\* rows of the table with row.nodeId === nodeId
rowsOfNode(ctx, table, nodeId) ==
  {r \in ctx.outputs : r.table = table /\ r.nodeId = nodeId}

\* outputMaybe: the row of the node with row.iteration === ctx.iteration, or undefined
outputMaybeRow(ctx, table, nodeId) ==
  LET matches == {r \in rowsOfNode(ctx, table, nodeId) : r.iteration = ctx.iteration}
  IN IF matches = {} THEN NoRow ELSE CHOOSE r \in matches : TRUE

\* a latest that looks at the current iteration alone
latestRow_IterationScoped(ctx, table, nodeId) == outputMaybeRow(ctx, table, nodeId)

\* latest: the row of the node with the largest iteration, or undefined
latestRow(ctx, table, nodeId) ==
  LET rows == rowsOfNode(ctx, table, nodeId)
  IN IF rows = {} THEN NoRow
     ELSE CHOOSE r \in rows : \A q \in rows : q.iteration <= r.iteration

EngineTasks ==
  {[nodeId |-> NodeId("-", "ticket-scheduler"), table |-> "ticket_schedule",
    retries |-> 2, agents |-> <<"a1", "a2">>, continueOnFail |-> TRUE],
   [nodeId |-> NodeId("-", "agentic-merge-queue"), table |-> "merge_queue_result",
    retries |-> 1, agents |-> <<"a1", "a2", "a3">>, continueOnFail |-> FALSE]}

attemptsOf(task, it) ==
  {a \in attempts : a.nodeId = task.nodeId /\ a.iteration = it}

\* a fallback that starts again at the first agent once the list is exhausted
agentIndex_RoundRobin(n, length) == (n - 1) % length

\* attempt N uses agents[min(N-1, length-1)]
agentIndex(n, length) == Min(n - 1, length - 1)

agentOfAttempt(agentList, n) == agentList[agentIndex(n, Len(agentList)) + 1]

\* Node State Machine, determination order 3, 4, 6, 7
nodeState(task, it) ==
  IF \E a \in attemptsOf(task, it) : a.state = "in-progress" THEN "in-progress"
  ELSE IF \E r \in rowsOfNode(Ctx, task.table, task.nodeId) : r.iteration = it
    THEN "finished"
  ELSE IF Cardinality({a \in attemptsOf(task, it) : a.state = "failed"})
            >= task.retries + 1
    THEN "failed"
  ELSE "pending"

\* continueOnFail: a failed task is treated as terminal
isTerminal(task, it) ==
  \/ nodeState(task, it) = "finished"
  \/ nodeState(task, it) = "failed" /\ task.continueOnFail

\* the engine terminates when a task without continueOnFail fails
runFailed ==
  \E task \in EngineTasks : nodeState(task, iteration) = "failed" /\ ~task.continueOnFail

\* a loop that advances as soon as one child is terminal
allChildrenTerminal_Some(it) == \E task \in EngineTasks : isTerminal(task, it)

\* Ralph: when all children terminal -> emits readyRalphs for iteration advance
allChildrenTerminal(it) == \A task \in EngineTasks : isTerminal(task, it)

EngineInit ==
  /\ mode = "engine"
  /\ config = DefaultConfig
  /\ QInit
  /\ PInit

\* Parallel: every pending child is runnable; 1. insert attempt row (in-progress)
StartAttempt ==
  /\ mode = "engine"
  /\ ~runFailed
  /\ \E task \in EngineTasks :
       /\ nodeState(task, iteration) = "pending"
       /\ LET n == Cardinality(attemptsOf(task, iteration)) + 1
          IN attempts' = attempts \cup
               {[nodeId |-> task.nodeId, iteration |-> iteration, n |-> n,
                 agent |-> agentOfAttempt(task.agents, n), state |-> "in-progress"]}
  /\ UNCHANGED <<mode, iteration, outputs, schedules, mergeRows, scheduledTasks, clock,
                 obeyed, applied>>
  /\ UNCHANGED <<dashboard, agents>>
  /\ UNCHANGED qvars

\* 6. upsert into output table, 7. mark attempt as finished
FinishAttempt ==
  /\ mode = "engine"
  /\ \E task \in EngineTasks :
       \E a \in attemptsOf(task, iteration) :
         /\ a.state = "in-progress"
         /\ outputs' = upsertOutput(outputs, Row(task.table, task.nodeId, {}))
         /\ attempts' = (attempts \ {a}) \cup {[a EXCEPT !.state = "finished"]}
  /\ UNCHANGED <<mode, iteration, schedules, mergeRows, scheduledTasks, clock,
                 obeyed, applied>>
  /\ UNCHANGED <<dashboard, agents>>
  /\ UNCHANGED qvars

\* the agent fails, times out or keeps failing validation: the attempt is failed
FailAttempt ==
  /\ mode = "engine"
  /\ \E task \in EngineTasks :
       \E a \in attemptsOf(task, iteration) :
         /\ a.state = "in-progress"
         /\ attempts' = (attempts \ {a}) \cup {[a EXCEPT !.state = "failed"]}
  /\ UNCHANGED <<mode, iteration, outputs, schedules, mergeRows, scheduledTasks, clock,
                 obeyed, applied>>
  /\ UNCHANGED <<dashboard, agents>>
  /\ UNCHANGED qvars

\* the loop advances to its next iteration
AdvanceRalph ==
  /\ mode = "engine"
  /\ ~runFailed
  /\ iteration < MaxIteration
  /\ allChildrenTerminal(iteration)
  /\ iteration' = iteration + 1
  /\ UNCHANGED <<mode, outputs, schedules, mergeRows, scheduledTasks, clock,
                 obeyed, applied, attempts>>
  /\ UNCHANGED <<dashboard, agents>>
  /\ UNCHANGED qvars

EngineNext == StartAttempt \/ FinishAttempt \/ FailAttempt \/ AdvanceRalph

EngineSpec == EngineInit /\ [][EngineNext]_vars

RoundBegins == mode = "queue" /\ loop.pc # "fetch" /\ loop'.pc = "fetch"

\* C31: in each round the window is the first D pending ready entries in queue order,
\* with 1 <= window size <= D and D >= 1 whatever depth was requested; window entry 0
\* is rebased onto main and entry i > 0 onto the bookmark of entry i-1, in index
\* order; the review gate and CI start only after every window entry was rebased.
C31_WindowAndStackedRebase ==
  [][mode = "queue" =>
       /\ coord'.maxSpeculativeDepth >= 1
       /\ RoundBegins =>
            LET pending == getOrderedPendingEntries(entries', coord'.orderingStrategy)
                D == coord'.maxSpeculativeDepth
            IN /\ 1 <= Len(loop'.window)
               /\ Len(loop'.window) <= D
               /\ Len(loop'.window) = IF Len(pending) < D THEN Len(pending) ELSE D
               /\ \A i \in 1..Len(loop'.window) : loop'.window[i] = pending[i]
       /\ Len(round'.rebased) <= Len(loop'.window)
       /\ \A i \in 1..Len(round'.rebased) :
            round'.rebased[i] = IF i = 1 THEN "main" ELSE loop'.window[i - 1]
       /\ (loop'.pc \in {"review", "ci"} \/ round'.review # <<>> \/ round'.ci # <<>>) =>
            Len(round'.rebased) = Len(loop'.window)]_vars

\* C31 witness: with three pending ready entries and a depth of 2 the window holds
\* the first two, both are rebased, and CI is about to run.
C31_Witness ==
  /\ mode = "queue"
  /\ loop.pc = "ci"
  /\ coord.maxSpeculativeDepth = 2
  /\ Len(loop.window) = 2
  /\ round.rebased = <<"main", loop.window[1]>>
  /\ Len(getOrderedPendingEntries(entries, coord.orderingStrategy)) = 3

(***************************************************************************)
(* evictEntry: context, cleanup, publication                               *)
(***************************************************************************)
\* type EvictReason
EvictReasons ==
  {"rebase_conflict", "ci_failed", "review_failed", "push_failed",
   "fast_forward_failed", "fetch_failed"}

\* the step publishes an evicted result for t
PublishesEviction(t) ==
  /\ entries'[t].result # entries[t].result
  /\ entries'[t].result # <<>>
  /\ entries'[t].result[1].evicted

\* C32: for every evicted entry, whatever the reason, the eviction context is
\* collected first, the ticket's bookmark and workspace are cleaned up next, and the
\* result is published last; the published result has evicted = true, the reason of
\* the eviction and the collected context, and every waiter of the entry receives it.
C32_EvictionContextCleanupPublish ==
  [][mode = "queue" =>
       /\ loop'.pc = "evict_context" =>
            loop'.target \in QTickets /\ loop'.reason \in EvictReasons
       /\ (loop'.pc = "evict_cleanup" /\ loop.pc # "evict_cleanup") =>
            /\ loop.pc = "evict_context"
            /\ loop'.target = loop.target
            /\ loop'.reason = loop.reason
            /\ entries' = entries
       /\ \A t \in QTickets :
            PublishesEviction(t) =>
              LET r == entries'[t].result[1] IN
              /\ loop.pc = "evict_cleanup"
              /\ loop.target = t
              /\ r.evicted /\ ~r.merged
              /\ r.evictionReason = loop.reason
              /\ r.context
              /\ \A k \in 1..Len(entries[t].waiters) :
                   calls'[entries[t].waiters[k]].result = <<r>>]_vars

\* C32 witness: the first entry of a prefix was evicted for a failed fast-forward and
\* a caller holds its published result with the context, while the context of the
\* second entry of the prefix is being collected.
C32_Witness ==
  /\ mode = "queue"
  /\ loop.pc = "evict_context"
  /\ loop.ret = "each"
  /\ loop.reason = "fast_forward_failed"
  /\ \E t \in QTickets :
       /\ t # loop.target
       /\ <<t, "fast_forward_failed">> \in round.evicted
  /\ \E k \in 1..Len(calls) :
       /\ calls[k].state = "returned"
       /\ calls[k].result # <<>>
       /\ calls[k].result[1].evicted
       /\ calls[k].result[1].context
       /\ calls[k].result[1].evictionReason = "fast_forward_failed"

(***************************************************************************)
(* buildFileOverlapAnalysis of the merge-queue prompt                      *)
(***************************************************************************)
MaxFileListLen == 2

Files == {"a.ts", "b.ts"}

\* filesModified or filesCreated as the implement output reports them
FileLists == UNION {[1..n -> Files] : n \in 0..MaxFileListLen}

\* the tickets handed to <AgenticMergeQueue>: tier-complete, not landed
OverlapTicketLists ==
  {<<[ticketId |-> "T1", filesModified |-> m1, filesCreated |-> c1]>> :
     m1 \in FileLists, c1 \in FileLists}
  \cup
  {<<[ticketId |-> "T1", filesModified |-> m1, filesCreated |-> c1],
     [ticketId |-> "T2", filesModified |-> m2, filesCreated |-> <<>>]>> :
     m1 \in FileLists, c1 \in FileLists, m2 \in FileLists}

\* [...(t.filesModified ?? []), ...(t.filesCreated ?? [])]
allFiles(t) == t.filesModified \o t.filesCreated

\* the ids pushed for file f while the files of ticket t are walked
RECURSIVE pushesOf(_, _, _)
pushesOf(files, ticketId, f) ==
  IF files = <<>> THEN <<>>
  ELSE (IF Head(files) = f THEN <<ticketId>> ELSE <<>>) \o pushesOf(Tail(files), ticketId, f)

\* fileToTickets.get(f) after the loop over the tickets
RECURSIVE fileToTickets(_, _)
fileToTickets(tickets, f) ==
  IF tickets = <<>> THEN <<>>
  ELSE pushesOf(allFiles(Head(tickets)), Head(tickets).ticketId, f)
         \o fileToTickets(Tail(tickets), f)

\* the conflicts of buildFileOverlapAnalysis: file -> ids, for ids.length > 1
buildFileOverlapAnalysis(tickets) ==
  [f \in {g \in Files : Len(fileToTickets(tickets, g)) > 1} |-> fileToTickets(tickets, f)]

OverlapInit ==
  /\ mode = "overlap"
  /\ config = DefaultConfig
  /\ QInit
  /\ iteration = 0
  /\ outputs = {}
  /\ schedules = {}
  /\ mergeRows = <<>>
  /\ scheduledTasks = <<>>
  /\ clock = 0
  /\ obeyed = TRUE
  /\ attempts = {}
  /\ dashboard = "idle"
  /\ agents = <<>>
  /\ applied \in {[fn |-> "tickets", tickets |-> tickets] : tickets \in OverlapTicketLists}

\* buildMergeQueuePrompt builds the analysis of the tickets it is given
ApplyBuildFileOverlapAnalysis ==
  /\ mode = "overlap"
  /\ applied.fn = "tickets"
  /\ applied' = [fn |-> "buildFileOverlapAnalysis", tickets |-> applied.tickets,
                 value |-> buildFileOverlapAnalysis(applied.tickets)]
  /\ UNCHANGED <<mode, iteration, outputs, schedules, mergeRows, scheduledTasks, clock,
                 obeyed>>
  /\ UNCHANGED attempts
  /\ UNCHANGED <<dashboard, agents>>
  /\ UNCHANGED qvars

OverlapNext == ApplyBuildFileOverlapAnalysis

OverlapSpec == OverlapInit /\ [][OverlapNext]_vars

\* the tickets of the list that touch the file
TicketsTouching(tickets, f) ==
  {tickets[k].ticketId : k \in {j \in 1..Len(tickets) :
                                  \E x \in 1..Len(allFiles(tickets[j])) :
                                    allFiles(tickets[j])[x] = f}}

\* C33: the file-overlap analysis reports a file iff at least two distinct ready
\* tickets touch it, in filesModified or filesCreated; a file touched by one ticket
\* alone is never reported.
C33_OverlapIffTwoTickets ==
  (mode = "overlap" /\ applied.fn = "buildFileOverlapAnalysis") =>
    \A f \in Files :
      f \in DOMAIN applied.value <=>
        Cardinality(TicketsTouching(applied.tickets, f)) >= 2

(***************************************************************************)
(* <Monitor>: a compute task next to the <Ralph> loop.  The engine runs    *)
(* the runnable tasks of a frame and renders again when all have settled.  *)
(***************************************************************************)
\* <Task id="monitor" output={monitorOutputSchema} continueOnFail={true}>
MonitorTask ==
  [nodeId |-> NodeId("-", "monitor"), table |-> "monitor", retries |-> 0,
   agents |-> <<"compute">>, continueOnFail |-> TRUE]

\* the child of the sibling loop
LoopTask ==
  [nodeId |-> NodeId("-", "ticket-scheduler"), table |-> "ticket_schedule",
   retries |-> 1, agents |-> <<"a1">>, continueOnFail |-> TRUE]

\* the monitor task is outside the loop: its node belongs to iteration 0
iterationOf(task) == IF task = MonitorTask THEN 0 ELSE iteration

inProgress(task) ==
  \E a \in attemptsOf(task, iterationOf(task)) : a.state = "in-progress"

\* a callback that awaits runMonitorUI: it settles when the TUI loop has ended
callbackSettles_AwaitsUI(ui) == ui \in {"stopped", "crashed"}

\* runMonitorUI(...).catch(...) is not awaited: the callback returns at once
callbackSettles(ui) == TRUE

MonitorInit ==
  /\ mode = "monitor"
  /\ config = DefaultConfig
  /\ QInit
  /\ PInit

\* Schedule and Execute: every pending task of the frame gets an attempt; the monitor
\* callback starts the TUI unless SUPER_RALPH_SKIP_MONITOR is set
ScheduleFrame ==
  /\ mode = "monitor"
  /\ ~inProgress(MonitorTask) /\ ~inProgress(LoopTask)
  /\ LET runnable == {task \in {MonitorTask, LoopTask} :
                        nodeState(task, iterationOf(task)) = "pending"}
     IN /\ runnable # {}
        /\ attempts' = attempts \cup
             {[nodeId |-> task.nodeId, iteration |-> iterationOf(task),
               n |-> Cardinality(attemptsOf(task, iterationOf(task))) + 1,
               agent |-> task.agents[1], state |-> "in-progress"] : task \in runnable}
        /\ \E skip \in BOOLEAN :
             dashboard' = IF MonitorTask \in runnable /\ ~skip THEN "running"
                          ELSE dashboard
  /\ UNCHANGED <<mode, iteration, outputs, schedules, mergeRows, scheduledTasks, clock,
                 obeyed, applied>>
  /\ UNCHANGED agents
  /\ UNCHANGED qvars

\* the monitor callback returns { started, status }: the row is written
MonitorReturns ==
  /\ mode = "monitor"
  /\ callbackSettles(dashboard)
  /\ \E a \in attemptsOf(MonitorTask, 0) :
       /\ a.state = "in-progress"
       /\ attempts' = (attempts \ {a}) \cup {[a EXCEPT !.state = "finished"]}
       /\ outputs' = upsertOutput(outputs,
            [table |-> MonitorTask.table, nodeId |-> MonitorTask.nodeId,
             iteration |-> 0, tickets |-> {}])
  /\ UNCHANGED <<mode, iteration, schedules, mergeRows, scheduledTasks, clock,
                 obeyed, applied, dashboard>>
  /\ UNCHANGED agents
  /\ UNCHANGED qvars

\* the user quits the TUI: isRunning = false, runMonitorUI resolves
DashboardStops ==
  /\ mode = "monitor"
  /\ dashboard = "running"
  /\ dashboard' = "stopped"
  /\ UNCHANGED <<mode, iteration, outputs, schedules, mergeRows, scheduledTasks, clock,
                 obeyed, applied, attempts>>
  /\ UNCHANGED agents
  /\ UNCHANGED qvars

\* runMonitorUI rejects: the .catch handler writes "[Monitor] TUI crashed"
DashboardCrashes ==
  /\ mode = "monitor"
  /\ dashboard = "running"
  /\ dashboard' = "crashed"
  /\ UNCHANGED <<mode, iteration, outputs, schedules, mergeRows, scheduledTasks, clock,
                 obeyed, applied, attempts>>
  /\ UNCHANGED agents
  /\ UNCHANGED qvars

\* the attempt of the loop's child finishes or fails
LoopTaskSettles ==
  /\ mode = "monitor"
  /\ \E a \in attemptsOf(LoopTask, iteration) :
       /\ a.state = "in-progress"
       /\ \/ /\ attempts' = (attempts \ {a}) \cup {[a EXCEPT !.state = "finished"]}
             /\ outputs' = upsertOutput(outputs, Row(LoopTask.table, LoopTask.nodeId, {}))
          \/ /\ attempts' = (attempts \ {a}) \cup {[a EXCEPT !.state = "failed"]}
             /\ outputs' = outputs
  /\ UNCHANGED <<mode, iteration, schedules, mergeRows, scheduledTasks, clock,
                 obeyed, applied, dashboard>>
  /\ UNCHANGED agents
  /\ UNCHANGED qvars

\* the frame has settled and the loop's child is terminal: the loop advances
MonitorLoopAdvance ==
  /\ mode = "monitor"
  /\ ~inProgress(MonitorTask) /\ ~inProgress(LoopTask)
  /\ isTerminal(LoopTask, iteration)
  /\ iteration < MaxIteration
  /\ iteration' = iteration + 1
  /\ UNCHANGED <<mode, outputs, schedules, mergeRows, scheduledTasks, clock,
                 obeyed, applied, attempts, dashboard>>
  /\ UNCHANGED agents
  /\ UNCHANGED qvars

MonitorEngineNext ==
  ScheduleFrame \/ MonitorReturns \/ LoopTaskSettles \/ MonitorLoopAdvance

MonitorNext == MonitorEngineNext \/ DashboardStops \/ DashboardCrashes

\* the engine keeps taking its steps and attempts settle; nothing is assumed of the
\* TUI, which may run forever
MonitorSpec == MonitorInit /\ [][MonitorNext]_vars /\ WF_vars(MonitorEngineNext)

\* C34: the Monitor task reaches a terminal state without waiting for the dashboard
\* loop to end; a crash of the dashboard neither fails the task nor stops the run;
\* so the sibling loop advances through its iterations whatever the dashboard does.
C34_MonitorNeverBlocksLoop ==
  /\ [](mode = "monitor" => nodeState(MonitorTask, 0) # "failed")
  /\ (mode = "monitor") ~> (nodeState(MonitorTask, 0) = "finished")
  /\ (mode = "monitor") ~> (iteration = MaxIteration)

\* C34 witness: the loop has advanced to its last iteration and the monitor task is
\* finished while the TUI is still running.
C34_Witness ==
  /\ mode = "monitor"
  /\ dashboard = "running"
  /\ nodeState(MonitorTask, 0) = "finished"
  /\ iteration = MaxIteration

(***************************************************************************)
(* Progress of processLoop                                                 *)
(***************************************************************************)
PendingReady == {t \in QTickets : pendingFilter(entries[t])}

\* a step of the running loop that leaves a round: the loop selects the next
\* window or returns
RoundEnds ==
  /\ mode = "queue"
  /\ loop.pc \notin {"idle", "returned"}
  /\ loop'.pc \in {"fetch", "returned"}
  /\ ~IsEnqueue

C36_PendingReadyHasLoop ==
  mode = "queue" => (PendingReady # {} => processing)

(***************************************************************************)
(* Shape of MergeQueueLandResult                                           *)
(***************************************************************************)
\* every result the coordinator has produced: stored on an entry or returned
\* to a caller
Results ==
  {entries[t].result[1] : t \in {u \in QTickets : entries[u].result # <<>>}}
    \cup {calls[k].result[1] : k \in {j \in 1..Len(calls) : calls[j].result # <<>>}}

WellFormed(r) ==
  /\ ~(r.merged /\ r.evicted)
  /\ r.merged => (r.ciPassed /\ r.evictionReason = "null")
  /\ r.evicted => (~r.merged /\ ~r.ciPassed /\ r.evictionReason # "null")

\* C37: every result is well-formed: merged and evicted are never both true; a
\* merged result has ciPassed = true and no eviction reason; an evicted result
\* has merged = false, ciPassed = false and a non-null reason; the result of a
\* not-ready call has merged = false and evicted = false.
C37_ResultsWellFormed ==
  mode = "queue" =>
    /\ \A r \in Results : WellFormed(r)
    /\ \A k \in 1..Len(calls) :
         (~calls[k].readyForQueue /\ calls[k].result # <<>>) =>
           (~calls[k].result[1].merged /\ ~calls[k].result[1].evicted)

\* a landed, an evicted and a not-ready result have all been returned
C37_Witness ==
  /\ mode = "queue"
  /\ \E k \in 1..Len(calls) : calls[k].result # <<>> /\ calls[k].result[1].merged
  /\ \E k \in 1..Len(calls) : calls[k].result # <<>> /\ calls[k].result[1].evicted
  /\ \E k \in 1..Len(calls) : ~calls[k].readyForQueue /\ calls[k].result # <<>>

(***************************************************************************)
(* Calls with readyForQueue = false                                        *)
(***************************************************************************)
\* ticket t was the ticket of some enqueue call, and of none with readyForQueue
OnlyRequestedNotReady(t) ==
  /\ \E k \in 1..Len(calls) : calls[k].ticketId = t
  /\ \A k \in 1..Len(calls) : calls[k].ticketId = t => ~calls[k].readyForQueue

InWindow(t) == \E i \in 1..Len(loop.window) : loop.window[i] = t

\* C38: an enqueue call with readyForQueue = false has returned a result with
\* merged = false and evicted = false and is no entry's waiter; and a ticket that
\* was only ever submitted as not ready is in no window (so it is not rebased) and
\* has no landed or evicted result.
C38_NotReadyNeverProcessed ==
  mode = "queue" =>
    /\ \A k \in 1..Len(calls) :
         ~calls[k].readyForQueue =>
           /\ calls[k].state = "returned"
           /\ ~calls[k].result[1].merged
           /\ ~calls[k].result[1].evicted
           /\ \A t \in QTickets :
                \A j \in 1..Len(entries[t].waiters) : entries[t].waiters[j] # k
    /\ \A t \in QTickets :
         OnlyRequestedNotReady(t) => (~InWindow(t) /\ entries[t].result = <<>>)

(***************************************************************************)
(* AgentRegistry.  The Map agents is a function whose domain is the set of *)
(* registered ids; null is <<>> and a value v is <<v>>.                    *)
(***************************************************************************)
MaxRecords == 2
MaxClock == 2

TaskIds == {"T1:implement", "T2:test"}

\* retryAfterMs: undefined, or a number of milliseconds
RetryAfter == {<<>>, <<0>>, <<2>>}

registered(reg, id) == id \in DOMAIN reg

\* computeStats, the fields derived from the clock and the assignment
computeStats(state, now) ==
  LET isRateLimited == state.rateLimitedUntil # <<>> /\ state.rateLimitedUntil[1] > now
  IN [successCount |-> state.successCount, failureCount |-> state.failureCount,
      rateLimitCount |-> state.rateLimitCount, isRateLimited |-> isRateLimited,
      isAvailable |-> ~isRateLimited /\ state.currentTaskId = <<>>,
      currentTaskId |-> state.currentTaskId]

registerAgent(reg, id) ==
  [a \in DOMAIN reg \cup {id} |->
     IF a = id
     THEN [successCount |-> 0, failureCount |-> 0, rateLimitCount |-> 0,
           totalDurationMs |-> 0, lastFailureReason |-> <<>>, rateLimitedUntil |-> <<>>,
           currentTaskId |-> <<>>, currentTaskStartMs |-> <<>>]
     ELSE reg[a]]

recordSuccess(reg, agentId, durationMs) ==
  IF ~registered(reg, agentId) THEN reg
  ELSE [reg EXCEPT ![agentId] =
          [@ EXCEPT !.successCount = @ + 1, !.totalDurationMs = @ + durationMs,
                    !.currentTaskId = <<>>, !.currentTaskStartMs = <<>>]]

\* recordFailure leaving the assignment in place
recordFailure_KeepsTask(reg, agentId, reason, durationMs) ==
  IF ~registered(reg, agentId) THEN reg
  ELSE [reg EXCEPT ![agentId] =
          [@ EXCEPT !.failureCount = @ + 1, !.totalDurationMs = @ + durationMs,
                    !.lastFailureReason = <<reason>>]]

recordFailure(reg, agentId, reason, durationMs) ==
  IF ~registered(reg, agentId) THEN reg
  ELSE [reg EXCEPT ![agentId] =
          [@ EXCEPT !.failureCount = @ + 1, !.totalDurationMs = @ + durationMs,
                    !.lastFailureReason = <<reason>>,
                    !.currentTaskId = <<>>, !.currentTaskStartMs = <<>>]]

recordRateLimit(reg, agentId, retryAfterMs, now) ==
  IF ~registered(reg, agentId) THEN reg
  ELSE [reg EXCEPT ![agentId] =
          [@ EXCEPT !.rateLimitCount = @ + 1, !.lastFailureReason = <<"Rate limited">>,
                    !.rateLimitedUntil = IF retryAfterMs # <<>>
                                         THEN <<now + retryAfterMs[1]>> ELSE @,
                    !.currentTaskId = <<>>, !.currentTaskStartMs = <<>>]]

assignTask(reg, agentId, taskId, now) ==
  IF ~registered(reg, agentId) THEN reg
  ELSE [reg EXCEPT ![agentId] =
          [@ EXCEPT !.currentTaskId = <<taskId>>, !.currentTaskStartMs = <<now>>]]

releaseAgent(reg, agentId) ==
  IF ~registered(reg, agentId) THEN reg
  ELSE [reg EXCEPT ![agentId] =
          [@ EXCEPT !.currentTaskId = <<>>, !.currentTaskStartMs = <<>>]]

getAvailableAgents(reg, now) ==
  {id \in DOMAIN reg : computeStats(reg[id], now).isAvailable}

\* the records (success, failure, rate limit) the registry has taken so far
Records(reg) ==
  LET RECURSIVE sum(_)
      sum(S) == IF S = {} THEN 0
                ELSE LET id == CHOOSE x \in S : TRUE
                     IN reg[id].successCount + reg[id].failureCount
                          + reg[id].rateLimitCount + sum(S \ {id})
  IN sum(DOMAIN reg)

RegistryInit == mode = "registry" /\ config = DefaultConfig /\ QInit /\ PInit

\* one call of a method of the registry, with the call kept in applied
RegistryCall(fn, id, reg) ==
  /\ mode = "registry"
  /\ agents' = reg
  /\ applied' = [fn |-> fn, id |-> id]
  /\ UNCHANGED <<mode, iteration, outputs, schedules, mergeRows, scheduledTasks, clock,
                 obeyed, attempts, dashboard>>
  /\ UNCHANGED qvars

RegisterAgent ==
  \E id \in AgentIds :
    RegistryCall("registerAgent", id, registerAgent(agents, id))

AssignTask ==
  \E id \in AgentIds, taskId \in TaskIds :
    RegistryCall("assignTask", id, assignTask(agents, id, taskId, clock))

RecordSuccess ==
  \E id \in AgentIds :
    /\ Records(agents) < MaxRecords
    /\ RegistryCall("recordSuccess", id, recordSuccess(agents, id, 1))

RecordFailure ==
  \E id \in AgentIds :
    /\ Records(agents) < MaxRecords
    /\ RegistryCall("recordFailure", id, recordFailure(agents, id, "error", 1))

RecordRateLimit ==
  \E id \in AgentIds, retryAfterMs \in RetryAfter :
    /\ Records(agents) < MaxRecords
    /\ RegistryCall("recordRateLimit", id,
                    recordRateLimit(agents, id, retryAfterMs, clock))

ReleaseAgent ==
  \E id \in AgentIds : RegistryCall("releaseAgent", id, releaseAgent(agents, id))

\* Date.now() moves on
Tick ==
  /\ mode = "registry"
  /\ clock < MaxClock
  /\ clock' = clock + 1
  /\ UNCHANGED <<mode, iteration, outputs, schedules, mergeRows, scheduledTasks,
                 obeyed, applied, attempts, dashboard, agents>>
  /\ UNCHANGED qvars

RegistryNext ==
  \/ RegisterAgent
  \/ AssignTask
  \/ RecordSuccess
  \/ RecordFailure
  \/ RecordRateLimit
  \/ ReleaseAgent
  \/ Tick

RegistrySpec == RegistryInit /\ [][RegistryNext]_vars

Releasing == {"recordSuccess", "recordFailure", "recordRateLimit", "releaseAgent"}

\* C39: an agent is available exactly when it is not rate-limited now and has no
\* current task; after recordSuccess, recordFailure, recordRateLimit or
\* releaseAgent the agent has no current task; and any of the four called with
\* an id that is not registered changes nothing in the registry.
C39_AvailabilityAndRelease ==
  [][mode = "registry" =>
       /\ \A id \in DOMAIN agents' :
            id \in getAvailableAgents(agents', clock') <=>
              /\ ~(/\ agents'[id].rateLimitedUntil # <<>>
                   /\ agents'[id].rateLimitedUntil[1] > clock')
              /\ agents'[id].currentTaskId = <<>>
       /\ applied'.fn \in Releasing =>
            IF applied'.id \in DOMAIN agents
            THEN /\ agents'[applied'.id].currentTaskId = <<>>
                 /\ agents'[applied'.id].currentTaskStartMs = <<>>
            ELSE agents' = agents]_vars

\* a1 lost its task to a rate limit and is still rate-limited, a2 holds a task, and
\* a failure was recorded for a1 before
C39_Witness ==
  /\ mode = "registry"
  /\ applied = [fn |-> "recordRateLimit", id |-> "a1"]
  /\ DOMAIN agents = {"a1", "a2"}
  /\ agents["a1"].rateLimitedUntil # <<>>
  /\ agents["a1"].rateLimitedUntil[1] > clock
  /\ agents["a1"].failureCount = 1
  /\ agents["a1"].currentTaskId = <<>>
  /\ agents["a2"].currentTaskId # <<>>
  /\ getAvailableAgents(agents, clock) = {}

(***************************************************************************)
(* createSpeculativeMergeQueueAgent: generate(args) reads the request from *)
(* the prompt and runs it through the queue inside try / catch.            *)
(***************************************************************************)
MaxPromptLen == 3

\* the characters the scanner tells apart: braces, the double quote (q), the
\* backslash (b), anything else (x)
PromptChars == {"{", "}", "q", "b", "x"}

\* a prompt: whether REQUEST_MARKER occurs, and the text after it
Prompts ==
  [marker : BOOLEAN,
   text : UNION {[1..n -> PromptChars] : n \in 0..MaxPromptLen}]

\* prompt.indexOf("{", markerIndex), 0 for -1
RECURSIVE indexOfBrace(_, _)
indexOfBrace(text, i) ==
  IF i > Len(text) THEN 0
  ELSE IF text[i] = "{" THEN i ELSE indexOfBrace(text, i + 1)

\* the scanner loop of extractRequestFromPrompt: the index after the brace that
\* closes the block, 0 when the text ends first
RECURSIVE scanBlock(_, _, _, _, _)
scanBlock(text, i, depth, inString, escape) ==
  IF i > Len(text) THEN 0
  ELSE IF escape THEN scanBlock(text, i + 1, depth, inString, FALSE)
  ELSE IF text[i] = "b" THEN scanBlock(text, i + 1, depth, inString, TRUE)
  ELSE IF text[i] = "q" THEN scanBlock(text, i + 1, depth, ~inString, FALSE)
  ELSE IF inString THEN scanBlock(text, i + 1, depth, inString, FALSE)
  ELSE IF text[i] = "{" THEN scanBlock(text, i + 1, depth + 1, inString, FALSE)
  ELSE IF text[i] = "}"
       THEN IF depth - 1 = 0 THEN i + 1
            ELSE scanBlock(text, i + 1, depth - 1, inString, FALSE)
  ELSE scanBlock(text, i + 1, depth, inString, FALSE)

\* JSON.parse of a block over PromptChars: only "{}" is JSON, and it stands for
\* the serialized request object
jsonParses(block) == block = <<"{", "}">>

\* extractRequestFromPrompt: the error it throws, or "ok"
extractRequestFromPrompt(prompt) ==
  IF ~prompt.marker THEN "Merge queue request marker not found in prompt."
  ELSE LET jsonStart == indexOfBrace(prompt.text, 1) IN
       IF jsonStart = 0 THEN "Merge queue request JSON start not found in prompt."
       ELSE LET end == scanBlock(prompt.text, jsonStart, 0, FALSE, FALSE) IN
            IF end = 0 THEN "Merge queue request JSON block is not balanced."
            ELSE IF ~jsonParses(SubSeq(prompt.text, jsonStart, end - 1))
                 THEN "Failed to parse merge queue request JSON"
                 ELSE "ok"

\* what extractRequestFromPrompt does over all prompts
Extractions == {extractRequestFromPrompt(prompt) : prompt \in Prompts}

\* the output of generate's catch block
errorResult ==
  [merged |-> FALSE, ciPassed |-> FALSE, evicted |-> FALSE, evictionReason |-> "null",
   evictionDetails |-> "null", retested |-> 0, context |-> FALSE,
   summary |-> "Merge queue coordinator error"]

\* the call of generate returns what the catch block built
caught(m, ticketId) ==
  [m EXCEPT !.calls = Append(@, [ticketId |-> ticketId, reportIteration |-> 0,
                                 readyForQueue |-> FALSE, snapshotLen |-> 0,
                                 state |-> "returned", outcomes |-> 1,
                                 result |-> <<errorResult>>])]

\* enqueue of a request object without fields: the coordinator takes the
\* undefined settings, then ingestSnapshot(undefined) throws a TypeError
enqueueEmptyObject(m) ==
  caught([m EXCEPT !.coord = [@ EXCEPT !.orderingStrategy = "undefined",
                                       !.maxSpeculativeDepth = 1]], "none")

AgentInit == mode = "agent" /\ config = DefaultConfig /\ QInit /\ PInit

AgentStep(m, n) ==
  /\ mode = "agent"
  /\ faults + n <= MaxFaults
  /\ faults' = faults + n
  /\ Becomes(m)
  /\ UNCHANGED <<mode, config>>

\* generate(args) up to its return or to its await inside enqueue
Generate ==
  /\ Len(calls) < MaxCalls
  /\ \E thrown \in Extractions :
       IF thrown # "ok"
       THEN AgentStep(caught(Machine, "none"), 0) /\ registry' = registry
       ELSE /\ registry' = TRUE
            /\ \/ AgentStep(enqueueEmptyObject(Machine), 0)
               \/ \E ticketId \in QTickets, reportIteration \in ReportIterations,
                     readyForQueue \in BOOLEAN :
                    AgentStep(enqueue(Machine, Len(calls) + 1, config, ticketId,
                                      reportIteration, readyForQueue, <<>>), 0)
  /\ UNCHANGED pvars

\* the awaited operation of processLoop returns and the loop runs on to its next
\* await; at "returned" the finally callback of ensureProcessing runs
AgentOpReturns ==
  /\ loop.pc \notin {"idle"}
  /\ \E ok \in BOOLEAN, passed \in [1..Len(loop.window) -> BOOLEAN] :
       CASE loop.pc = "fetch" -> AgentStep(fetchDone(Machine, ok), Cost(ok))
         [] loop.pc = "rebase" -> AgentStep(rebaseDone(Machine, ok), Cost(ok))
         [] loop.pc = "review" -> AgentStep(reviewDone(Machine, passed), Failures(passed))
         [] loop.pc = "ci" -> AgentStep(ciDone(Machine, passed), Failures(passed))
         [] loop.pc = "fast_forward" -> AgentStep(fastForwardDone(Machine, ok), Cost(ok))
         [] loop.pc = "push" -> AgentStep(pushDone(Machine, ok), Cost(ok))
         [] loop.pc = "land_read" -> AgentStep(landReadDone(Machine), 0)
         [] loop.pc = "land_cleanup" -> AgentStep(landCleanupDone(Machine), 0)
         [] loop.pc = "evict_context" -> AgentStep(evictContextDone(Machine), 0)
         [] loop.pc = "evict_cleanup" -> AgentStep(evictCleanupDone(Machine), 0)
         [] loop.pc = "returned" -> AgentStep(finallyDone(Machine), 0)
  /\ UNCHANGED registry
  /\ UNCHANGED pvars

\* runCi rejects (mkdtemp or workspaceAdd throws): Promise.all rejects and
\* processLoop ends with the error; no entry is resolved
processLoopRejects(m) ==
  [m EXCEPT !.loop = [IdleLoop EXCEPT !.pc = "returned"],
            !.round = NoRound,
            !.activeLoops = @ - 1]

RunCiRejects ==
  /\ loop.pc = "ci"
  /\ AgentStep(processLoopRejects(Machine), 1)
  /\ applied' = [fn |-> "processLoop", rejected |-> TRUE,
                 awaiting |-> (IF applied = NoResult THEN {} ELSE applied.awaiting)
                                \cup {k \in 1..Len(calls) : calls[k].state = "awaiting"}]
  /\ UNCHANGED registry
  /\ UNCHANGED <<iteration, outputs, schedules, mergeRows, scheduledTasks, clock,
                 obeyed, attempts, dashboard, agents>>

AgentNext == Generate \/ AgentOpReturns \/ RunCiRejects

AgentSpec == AgentInit /\ [][AgentNext]_vars

\* the calls that were awaiting when an error ended processLoop
SawError == IF applied = NoResult THEN {} ELSE applied.awaiting

\* C40: generate never throws: a prompt without a parsable request, or any error
\* while the ticket runs through the queue, gives the call the result with
\* merged = false, evicted = false and the error text, and mainline is not moved
\* for that call.
C40_ErrorsBecomeErrorResults ==
  mode = "agent" =>
    \A k \in SawError :
      /\ calls[k].state = "returned" => calls[k].result[1] = errorResult
      /\ \A i \in 1..Len(mainLocal) : mainLocal[i] # calls[k].ticketId

====
